---- MODULE Spec2Model ----
(***************************************************************************)
(* State-machine model of the I2C driver of src/I2C/i2c.c (dsPIC33FJ32MC204)*)
(* and of the hardware registers the driver polls.                          *)
(*                                                                          *)
(* A register is the set of the bit positions that are 1 in it, so          *)
(*   *r |= 0x0001  is  r \cup {0},   *r & 0x1F  is  r \cap 0..4.            *)
(* Every function of the driver is cut into steps at its accesses to the    *)
(* volatile registers and to the per-unit globals; a calling context holds  *)
(* a stack of labels (stk), the head being the step it executes next.       *)
(***************************************************************************)
EXTENDS Integers, Sequences, FiniteSets, TLC

-----------------------------------------------------------------------------
(* Program constants *)

I2C_MODULE_1 == 1
I2C_MODULE_2 == 2

\* Bit positions of the control register, as the driver uses them.
SEN == 0
RSEN == 1
PEN == 2
RCEN == 3
ACKDT == 4
SMBEN == 5
SLEW_ON == 6
SLEW_OFF == 7
IWCOL == 8
I2COV == 9
A10M == 10
SLAVE_BIT == 14
I2CEN == 15
ACKSTAT == 15
TRN_START == 3

\* 0x1F, the mask _I2C_WaitCondition polls.
PendingMask == {SEN, RSEN, PEN, RCEN, ACKDT}

\* Iterations per millisecond of the busy-wait loops.
IterPerMs == 1000
\* unsigned int is 16 bits wide on the dsPIC33 (XC16 compiler).
UIntWidth == 16
Word == 2 ^ UIntWidth

\* A uint32_t is the pair <<high word, low word>> of its 16-bit halves.
U32(n) == <<n \div Word, n % Word>>
U32Zero == <<0, 0>>
U32Dec(x) ==
  IF x[2] > 0 THEN <<x[1], x[2] - 1>>
  ELSE IF x[1] > 0 THEN <<x[1] - 1, Word - 1>>
  ELSE <<Word - 1, Word - 1>>
\* n - k in uint32_t arithmetic, for 0 <= n and 0 <= k <= Word
U32Sub(n, k) == IF n >= k THEN U32(n - k) ELSE <<Word - 1, Word + n - k>>

FCY == 40000000
BRG_MAX == 65535
BRG_MIN == 2
INT_PRIORITY == 4

STAT_START == 15
\* Bit 14 of I2CxSTAT, which I2C_WaitIdle polls.
TRSTAT == 14
STAT_STOP == 14
STAT_RECEIVED == 13
STAT_REQUESTED == 12
SCAN_FIRST == 1
SCAN_END == 127
EEPROM_ADDRESS == 80
LM75_ADDRESS == 72

-----------------------------------------------------------------------------
(* Bounds of the model *)

\* Longest data buffer handed to WriteData / ReadData.
MaxLen == 2

\* Calling contexts: 1 is the polled caller, 2 a second caller that may
\* interleave with it.
Ctxs == {1, 2}
Units == {I2C_MODULE_1, I2C_MODULE_2}
\* Values of I2C_Module_t that name no unit.
InvalidSelectors == {0, 3}

\* timeout_ms values that callers configure.  6357 * 1000 = 97 * 65536 + 8,
\* so in 16-bit unsigned arithmetic it gives a budget of 8 iterations.
TimeoutValues == {0, 6357}
\* timeout_ms values handed to I2C_WaitIdle: 8192 * 1000 is a multiple of
\* 65536, and 1 * 1000 fits in 16 bits.
IdleTimeouts == {0, 1, 6357, 8192}

Addresses == {EEPROM_ADDRESS, LM75_ADDRESS}
\* The bus speeds handed to I2C_Init: the slowest ones, the standard ones,
\* and those around which the divider changes regime.  2 * speed stays
\* below 2^31, so the 32-bit product does not wrap.
SpeedSpan == 4
Around(x) == (x - SpeedSpan)..(x + SpeedSpan)
SpeedInputs ==
  (1..SpeedSpan) \cup Around(306) \cup {100000, 400000, 1000000}
    \cup Around(5000000) \cup Around(10000000) \cup Around(20000000)
    \cup {40000000}

\* A bus with no peripheral: devs are the 7-bit addresses that acknowledge,
\* phase what the addressed peripheral expects next, mem the bytes written
\* to it, which it sends back from position pos on.
NoBus == [devs |-> {}, phase |-> "idle", mem |-> <<>>, pos |-> 1]

\* The caller's list of found devices has ScanCap slots.
ScanCap == 2
\* The sets of peripherals that ScanBus meets.
ScanBuses ==
  {[NoBus EXCEPT !.devs = d] :
     d \in {{}, {LM75_ADDRESS, EEPROM_ADDRESS}}}

\* The functions user code registers as callbacks, and no function.
Callbacks == {"NULL", "on_event", "on_other"}

Bytes == {171}
RcvBytes == {0, 171}

\* The register indexes and values handed to WriteRegister and ReadRegister.
RegIndexes == {0, 5}
RegValues == {5, 171}

\* The data buffers handed to WriteData: bytes 17, 18, ... so that the
\* position of a byte in the buffer can be told from its value.
DataInputs == {[k \in 1..n |-> 16 + k] : n \in 1..MaxLen}

-----------------------------------------------------------------------------
VARIABLES
  con,      \* I2CxCON of each unit
  stat,     \* I2CxSTAT
  trn,      \* I2CxTRN
  rcv,      \* I2CxRCV
  brg,      \* I2CxBRG
  add,      \* I2CxADD
  msk,      \* I2CxMSK
  intr,     \* interrupt controller bits of each unit: flag, enable, priority
  pins,     \* whether _I2C_ConfigurePins has set up the unit's pins
  bus,      \* the peripherals wired to unit 1's pins
  state,    \* I2C1_State, I2C2_State
  busy,     \* I2C1_Busy, I2C2_Busy
  config,   \* I2C1_Config, I2C2_Config
  callback, \* i2c1_callback, i2c2_callback
  ctx,      \* the calling contexts: arguments, locals and label stack
  obs       \* observers: what each context did during its current call

regs == <<con, stat, trn, rcv, brg, add, msk, intr, pins, bus>>
glob == <<state, busy, config, callback>>
vars == <<con, stat, trn, rcv, brg, add, msk, intr, pins, bus,
          state, busy, config, callback, ctx, obs>>

-----------------------------------------------------------------------------
(* Per-unit accessors: an unknown selector falls back to unit 1 *)

GetModuleBase(module) ==
  IF module = I2C_MODULE_2 THEN I2C_MODULE_2 ELSE I2C_MODULE_1

\* Mutant of GetState: every selector resolves to the status of unit 1.
GetStateOfUnit1(module) == I2C_MODULE_1

GetState(module) ==
  IF module = I2C_MODULE_2 THEN I2C_MODULE_2 ELSE I2C_MODULE_1

GetBusyFlag(module) ==
  IF module = I2C_MODULE_2 THEN I2C_MODULE_2 ELSE I2C_MODULE_1

\* Mutant of GetConfig: every selector resolves to the object of unit 1.
GetConfigOfUnit1(module) == I2C_MODULE_1

GetConfig(module) ==
  IF module = I2C_MODULE_2 THEN I2C_MODULE_2 ELSE I2C_MODULE_1

\* The zero-initialised I2C_Config_t of a static object.
ZeroConfig ==
  [module |-> 0, mode |-> "MASTER", speed |-> 0, slave_address |-> 0,
   general_call_enable |-> FALSE, slew_rate_control |-> FALSE,
   smbus_enable |-> FALSE, timeout_ms |-> 0, interrupt_enable |-> FALSE,
   callback |-> "NULL"]

\* uint32_t timeout_counter = timeout_ms * 1000: the product of a uint16_t
\* and an int is computed in 16-bit unsigned arithmetic, then widened.
TimeoutCounter(timeout_ms) == U32((timeout_ms * IterPerMs) % Word)

-----------------------------------------------------------------------------
(* Calling contexts *)

IdleFrame ==
  [op |-> "none", stk |-> <<>>, module |-> 0, address |-> 0, data |-> <<>>,
   isnull |-> FALSE, length |-> 0, buffer |-> <<>>, i |-> 0, byte |-> 0,
   ack |-> FALSE, tc |-> U32Zero, ret |-> FALSE, rbyte |-> 0, success |-> FALSE,
   addr |-> 0, found |-> 0, max_devices |-> 0, devices |-> <<>>,
   cb |-> "NULL", cfg |-> ZeroConfig, reg_addr |-> 0, reg_data |-> 0,
   value |-> 0, result |-> 0, timeout_ms |-> 0]

\* Observers of one call: log is the history of the call, a sequence of
\* pairs: <<"S",0>>, <<"Sr",0>>, <<"P",0>> when the start, restart or stop
\* bit is asserted, <<"W",b>> when the transmission of b is started,
\* <<"R",a>> when a reception is started with acknowledge (a = 1) or
\* negative acknowledge (a = 0), and <<"s",r>>, <<"sr",r>>, <<"p",r>>,
\* <<"w",r>>, <<"r",b,e>> when Start, Restart, Stop, WriteByte return r
\* (1 success, 0 failure) or ReadByte returns b after a wait that succeeded
\* (e = "OK") or failed with status e, and <<"nack",b>> when WriteByte
\* records the negative acknowledge of byte b; waits the number of
\* invocations of the wait primitive, pbusy0 the unit's busy flag when the
\* innermost Start, Restart,
\* Stop or byte operation began, pstate0 the unit's status when a Start found
\* the unit busy, wret/wend/wflags how the last wait ended, holds the unit on
\* which the context is between a successful Start and its Stop, probes the
\* addresses ScanBus has handed to CheckDevice (the other observers then
\* cover the current probe only), calls the callback invocations of the
\* current dispatch, each <<event, data, flag, cb>> with flag the unit's
\* interrupt flag at that moment and cb the function that was called.
IdleObs ==
  [log |-> <<>>, waits |-> 0, pbusy0 |-> FALSE, pstate0 |-> "IDLE",
   wret |-> FALSE, wend |-> "none", wflags |-> {}, holds |-> 0,
   probes |-> <<>>, calls |-> <<>>]

Logged(o, e) == [o EXCEPT !.log = Append(@, e)]
Bit(b) == IF b THEN 1 ELSE 0

At(c, l) == ctx[c].stk # <<>> /\ Head(ctx[c].stk) = l

Goto(f, l) == [f EXCEPT !.stk = <<l>> \o Tail(f.stk)]

\* Call a function whose first step is `entry`; it returns to step `after`.
Call(f, entry, after) == [f EXCEPT !.stk = <<entry, after>> \o Tail(f.stk)]

Return(f, v) == [f EXCEPT !.stk = Tail(f.stk), !.ret = v]

\* Entry of _I2C_WaitCondition(module, _I2C_GetConfig(module)->timeout_ms).
CallWait(f, after) ==
  [Call(f, "wait_test", after) EXCEPT
     !.tc = TimeoutCounter(config[GetConfig(f.module)].timeout_ms)]

ObsCallWait(o) == [o EXCEPT !.waits = @ + 1, !.wend = "none", !.wflags = {}]

SetCtx(c, f) == ctx' = [ctx EXCEPT ![c] = f]
SetObs(c, o) == obs' = [obs EXCEPT ![c] = o]

-----------------------------------------------------------------------------
(* _I2C_WaitCondition *)
\* The local timeout_counter ends with the call.
WaitLeave(f) == [f EXCEPT !.tc = U32Zero]

\* Mutant of WaitTest: the counter is tested but not decremented.
WaitTestNoDecrement(c) ==
  /\ At(c, "wait_test")
  /\ LET f == ctx[c]
         r == con[GetModuleBase(f.module)]
         flags == r \cap {IWCOL, I2COV}
     IN IF r \cap PendingMask = {}
        THEN /\ SetCtx(c, Goto(f, "wait_exit"))
             /\ SetObs(c, [obs[c] EXCEPT !.wend = "clear", !.wflags = flags])
        ELSE IF f.tc = U32Zero
        THEN /\ SetCtx(c, Goto(f, "wait_exit"))
             /\ SetObs(c, [obs[c] EXCEPT !.wend = "exhausted",
                                         !.wflags = flags])
        ELSE /\ SetCtx(c, Goto(f, "wait_body"))
             /\ UNCHANGED obs
  /\ UNCHANGED <<regs, glob>>

\* while ((*i2c_con & 0x1F) != 0 && timeout_counter--)
WaitTest(c) ==
  /\ At(c, "wait_test")
  /\ LET f == ctx[c]
         r == con[GetModuleBase(f.module)]
         flags == r \cap {IWCOL, I2COV}
     IN IF r \cap PendingMask = {}
        THEN /\ SetCtx(c, Goto(f, "wait_exit"))
             /\ SetObs(c, [obs[c] EXCEPT !.wend = "clear", !.wflags = flags])
        ELSE IF f.tc = U32Zero
        THEN /\ SetCtx(c, [Goto(f, "wait_exit") EXCEPT !.tc = U32Dec(f.tc)])
             /\ SetObs(c, [obs[c] EXCEPT !.wend = "exhausted",
                                         !.wflags = flags])
        ELSE /\ SetCtx(c, [Goto(f, "wait_body") EXCEPT !.tc = U32Dec(f.tc)])
             /\ UNCHANGED obs
  /\ UNCHANGED <<regs, glob>>

\* Mutant of WaitBody: a raised flag is recorded in the status but the loop
\* goes on until the budget is spent.
WaitBodyKeepsWaiting(c) ==
  /\ At(c, "wait_body")
  /\ LET f == ctx[c]
         r == con[GetModuleBase(f.module)]
     IN /\ state' = [state EXCEPT ![GetState(f.module)] =
                        IF I2COV \in r THEN "OVERRUN"
                        ELSE IF IWCOL \in r THEN "BUS_COLLISION"
                        ELSE @]
        /\ SetCtx(c, Goto(f, "wait_test"))
        /\ UNCHANGED obs
  /\ UNCHANGED <<regs, busy, config, callback>>

\* The loop body, one reading of the register:
\*   if (*i2c_con & (1 << 9)) { state = OVERRUN; return false; }
\*   if (*i2c_con & (1 << 8)) { state = BUS_COLLISION; return false; }
WaitBody(c) ==
  /\ At(c, "wait_body")
  /\ LET f == ctx[c]
         r == con[GetModuleBase(f.module)]
     IN IF I2COV \in r
        THEN /\ state' = [state EXCEPT ![GetState(f.module)] = "OVERRUN"]
             /\ SetCtx(c, Return(WaitLeave(f), FALSE))
             /\ SetObs(c, [obs[c] EXCEPT !.wend = "overrun", !.wret = FALSE])
        ELSE IF IWCOL \in r
        THEN /\ state' = [state EXCEPT ![GetState(f.module)] = "BUS_COLLISION"]
             /\ SetCtx(c, Return(WaitLeave(f), FALSE))
             /\ SetObs(c, [obs[c] EXCEPT !.wend = "collision", !.wret = FALSE])
        ELSE /\ SetCtx(c, Goto(f, "wait_test"))
             /\ UNCHANGED <<state, obs>>
  /\ UNCHANGED <<regs, busy, config, callback>>

\* if (timeout_counter == 0) { state = TIMEOUT; return false; } return true;
WaitExit(c) ==
  /\ At(c, "wait_exit")
  /\ LET f == ctx[c]
     IN IF f.tc = U32Zero
        THEN /\ state' = [state EXCEPT ![GetState(f.module)] = "TIMEOUT"]
             /\ SetCtx(c, Return(WaitLeave(f), FALSE))
             /\ SetObs(c, [obs[c] EXCEPT !.wret = FALSE])
        ELSE /\ SetCtx(c, Return(WaitLeave(f), TRUE))
             /\ SetObs(c, [obs[c] EXCEPT !.wret = TRUE])
             /\ UNCHANGED state
  /\ UNCHANGED <<regs, busy, config, callback>>

WaitSteps(c) ==
  \/ WaitTest(c)
  \/ WaitBody(c)
  \/ WaitExit(c)

-----------------------------------------------------------------------------
(* I2C_Start *)

\* Mutant of StartCheck: the busy flag is not tested.
StartCheckIgnoresBusy(c) ==
  /\ At(c, "start_check")
  /\ LET f == ctx[c]
         b == busy[GetBusyFlag(f.module)]
     IN /\ SetCtx(c, Goto(f, "start_busy"))
        /\ SetObs(c, [obs[c] EXCEPT
                        !.pbusy0 = b,
                        !.pstate0 = IF b THEN state[GetState(f.module)]
                                         ELSE "IDLE"])
  /\ UNCHANGED <<regs, glob>>

\* if (*busy) return false;
StartCheck(c) ==
  /\ At(c, "start_check")
  /\ LET f == ctx[c]
         b == busy[GetBusyFlag(f.module)]
     IN /\ SetCtx(c, IF b THEN Return(f, FALSE) ELSE Goto(f, "start_busy"))
        /\ SetObs(c, [obs[c] EXCEPT
                        !.pbusy0 = b,
                        !.pstate0 = IF b THEN state[GetState(f.module)]
                                         ELSE "IDLE",
                        !.log = IF b THEN Append(@, <<"s", 0>>) ELSE @])
  /\ UNCHANGED <<regs, glob>>

\* *busy = true;
StartSetBusy(c) ==
  /\ At(c, "start_busy")
  /\ busy' = [busy EXCEPT ![GetBusyFlag(ctx[c].module)] = TRUE]
  /\ SetCtx(c, Goto(ctx[c], "start_state"))
  /\ UNCHANGED <<regs, state, config, callback, obs>>

\* *_I2C_GetState(module) = I2C_STATE_BUSY;
StartSetState(c) ==
  /\ At(c, "start_state")
  /\ state' = [state EXCEPT ![GetState(ctx[c].module)] = "BUSY"]
  /\ SetCtx(c, Goto(ctx[c], "start_sen"))
  /\ UNCHANGED <<regs, busy, config, callback, obs>>

\* *i2c_con |= 0x0001; then the call of _I2C_WaitCondition
StartSEN(c) ==
  /\ At(c, "start_sen")
  /\ LET u == GetModuleBase(ctx[c].module)
     IN con' = [con EXCEPT ![u] = @ \cup {SEN}]
  /\ SetCtx(c, CallWait(ctx[c], "start_after"))
  /\ SetObs(c, [ObsCallWait(obs[c]) EXCEPT !.log = Append(@, <<"S", 0>>)])
  /\ UNCHANGED <<trn, rcv, brg, add, msk, intr, pins, stat, bus, glob>>

\* Mutant of StartAfterWait: the busy flag is not cleared on failure.
StartAfterWaitKeepsBusy(c) ==
  /\ At(c, "start_after")
  /\ LET f == ctx[c]
     IN IF f.ret
        THEN /\ SetCtx(c, Return(f, TRUE))
             /\ SetObs(c, [Logged(obs[c], <<"s", 1>>) EXCEPT
                             !.holds = GetBusyFlag(f.module)])
        ELSE /\ SetCtx(c, Return(f, FALSE))
             /\ SetObs(c, Logged(obs[c], <<"s", 0>>))
  /\ UNCHANGED <<regs, glob>>

\* Mutant of StartAfterWait: a failed Start also puts the status back to
\* idle.
StartAfterWaitResetsState(c) ==
  /\ At(c, "start_after")
  /\ LET f == ctx[c]
     IN IF f.ret
        THEN /\ SetCtx(c, Return(f, TRUE))
             /\ SetObs(c, [Logged(obs[c], <<"s", 1>>) EXCEPT
                             !.holds = GetBusyFlag(f.module)])
             /\ UNCHANGED <<busy, state>>
        ELSE /\ busy' = [busy EXCEPT ![GetBusyFlag(f.module)] = FALSE]
             /\ state' = [state EXCEPT ![GetState(f.module)] = "IDLE"]
             /\ SetCtx(c, Return(f, FALSE))
             /\ SetObs(c, Logged(obs[c], <<"s", 0>>))
  /\ UNCHANGED <<regs, config, callback>>

\* if (!wait) { *busy = false; return false; } return true;
StartAfterWait(c) ==
  /\ At(c, "start_after")
  /\ LET f == ctx[c]
     IN IF f.ret
        THEN /\ SetCtx(c, Return(f, TRUE))
             /\ SetObs(c, [Logged(obs[c], <<"s", 1>>) EXCEPT
                             !.holds = GetBusyFlag(f.module)])
             /\ UNCHANGED busy
        ELSE /\ busy' = [busy EXCEPT ![GetBusyFlag(f.module)] = FALSE]
             /\ SetCtx(c, Return(f, FALSE))
             /\ SetObs(c, Logged(obs[c], <<"s", 0>>))
  /\ UNCHANGED <<regs, state, config, callback>>

StartSteps(c) ==
  \/ StartCheck(c)
  \/ StartSetBusy(c)
  \/ StartSetState(c)
  \/ StartSEN(c)
  \/ StartAfterWait(c)

-----------------------------------------------------------------------------
(* I2C_Restart *)

\* *i2c_con |= 0x0002; then the call of _I2C_WaitCondition
RestartRSEN(c) ==
  /\ At(c, "restart_rsen")
  /\ LET u == GetModuleBase(ctx[c].module)
     IN con' = [con EXCEPT ![u] = @ \cup {RSEN}]
  /\ SetCtx(c, CallWait(ctx[c], "restart_after"))
  /\ SetObs(c, [ObsCallWait(obs[c]) EXCEPT
                  !.log = Append(@, <<"Sr", 0>>),
                  !.pbusy0 = busy[GetBusyFlag(ctx[c].module)]])
  /\ UNCHANGED <<trn, rcv, brg, add, msk, intr, pins, stat, bus, glob>>

\* Mutant of RestartAfterWait: a completed restart releases the unit.
RestartAfterWaitFreesUnit(c) ==
  /\ At(c, "restart_after")
  /\ busy' = [busy EXCEPT ![GetBusyFlag(ctx[c].module)] = @ /\ ~ctx[c].ret]
  /\ SetCtx(c, Return(ctx[c], ctx[c].ret))
  /\ SetObs(c, Logged(obs[c], <<"sr", Bit(ctx[c].ret)>>))
  /\ UNCHANGED <<regs, state, config, callback>>

\* return _I2C_WaitCondition(...);
RestartAfterWait(c) ==
  /\ At(c, "restart_after")
  /\ SetCtx(c, Return(ctx[c], ctx[c].ret))
  /\ SetObs(c, Logged(obs[c], <<"sr", Bit(ctx[c].ret)>>))
  /\ UNCHANGED <<regs, glob>>

RestartSteps(c) ==
  \/ RestartRSEN(c)
  \/ RestartAfterWait(c)

-----------------------------------------------------------------------------
(* I2C_Stop *)

\* *i2c_con |= 0x0004; then the call of _I2C_WaitCondition
StopPEN(c) ==
  /\ At(c, "stop_pen")
  /\ LET u == GetModuleBase(ctx[c].module)
     IN con' = [con EXCEPT ![u] = @ \cup {PEN}]
  /\ SetCtx(c, CallWait(ctx[c], "stop_after"))
  /\ SetObs(c, [ObsCallWait(obs[c]) EXCEPT
                  !.log = Append(@, <<"P", 0>>),
                  !.pbusy0 = busy[GetBusyFlag(ctx[c].module)],
                  !.holds = 0])
  /\ UNCHANGED <<trn, rcv, brg, add, msk, intr, pins, stat, bus, glob>>

\* Mutant of StopAfterWait: the busy flag is cleared on failure too.
StopAfterWaitClearsOnFail(c) ==
  /\ At(c, "stop_after")
  /\ LET f == ctx[c]
     IN /\ busy' = [busy EXCEPT ![GetBusyFlag(f.module)] = FALSE]
        /\ IF f.ret
           THEN /\ SetCtx(c, Goto(f, "stop_idle"))
                /\ UNCHANGED obs
           ELSE /\ SetCtx(c, Return(f, FALSE))
                /\ SetObs(c, Logged(obs[c], <<"p", 0>>))
  /\ UNCHANGED <<regs, state, config, callback>>

\* Mutant of StopAfterWait: the busy flag is never cleared.
StopAfterWaitKeepsBusy(c) ==
  /\ At(c, "stop_after")
  /\ LET f == ctx[c]
     IN IF f.ret
        THEN /\ SetCtx(c, Goto(f, "stop_idle"))
             /\ UNCHANGED obs
        ELSE /\ SetCtx(c, Return(f, FALSE))
             /\ SetObs(c, Logged(obs[c], <<"p", 0>>))
  /\ UNCHANGED <<regs, glob>>

\* if (!wait) return false;  *busy = false;
StopAfterWait(c) ==
  /\ At(c, "stop_after")
  /\ LET f == ctx[c]
     IN IF f.ret
        THEN /\ busy' = [busy EXCEPT ![GetBusyFlag(f.module)] = FALSE]
             /\ SetCtx(c, Goto(f, "stop_idle"))
             /\ UNCHANGED obs
        ELSE /\ SetCtx(c, Return(f, FALSE))
             /\ SetObs(c, Logged(obs[c], <<"p", 0>>))
             /\ UNCHANGED busy
  /\ UNCHANGED <<regs, state, config, callback>>

\* Mutant of StopSetIdle: the status is left as the Stop found it.
StopKeepsStatus(c) ==
  /\ At(c, "stop_idle")
  /\ SetCtx(c, Return(ctx[c], TRUE))
  /\ SetObs(c, Logged(obs[c], <<"p", 1>>))
  /\ UNCHANGED <<regs, glob>>

\* *_I2C_GetState(module) = I2C_STATE_IDLE; return true;
StopSetIdle(c) ==
  /\ At(c, "stop_idle")
  /\ state' = [state EXCEPT ![GetState(ctx[c].module)] = "IDLE"]
  /\ SetCtx(c, Return(ctx[c], TRUE))
  /\ SetObs(c, Logged(obs[c], <<"p", 1>>))
  /\ UNCHANGED <<regs, busy, config, callback>>

StopSteps(c) ==
  \/ StopPEN(c)
  \/ StopAfterWait(c)
  \/ StopSetIdle(c)

-----------------------------------------------------------------------------
(* I2C_WriteByte *)

\* *i2c_trn = data;
WriteByteTRN(c) ==
  /\ At(c, "wb_trn")
  /\ LET f == ctx[c]
     IN /\ trn' = [trn EXCEPT ![GetModuleBase(f.module)] = f.byte]
        /\ SetCtx(c, Goto(f, "wb_go"))
        /\ SetObs(c, [obs[c] EXCEPT !.pbusy0 = busy[GetBusyFlag(f.module)]])
  /\ UNCHANGED <<con, rcv, brg, add, msk, intr, pins, stat, bus, glob>>

\* *i2c_con |= 0x0008; then the call of _I2C_WaitCondition
WriteByteGo(c) ==
  /\ At(c, "wb_go")
  /\ LET u == GetModuleBase(ctx[c].module)
     IN /\ con' = [con EXCEPT ![u] = @ \cup {TRN_START}]
        /\ SetObs(c, [ObsCallWait(obs[c]) EXCEPT
                        !.log = Append(@, <<"W", trn[u]>>)])
  /\ SetCtx(c, CallWait(ctx[c], "wb_after"))
  /\ UNCHANGED <<trn, rcv, brg, add, msk, intr, pins, stat, bus, glob>>

\* Mutant of WriteByteAfterWait: the acknowledge status is not inspected.
WriteByteAfterWaitNoAck(c) ==
  /\ At(c, "wb_after")
  /\ LET f == ctx[c]
     IN /\ SetCtx(c, Return(f, f.ret))
        /\ SetObs(c, Logged(obs[c], <<"w", Bit(f.ret)>>))
  /\ UNCHANGED <<regs, glob>>

\* Mutant of WriteByteAfterWait: a refused address byte is recorded as an
\* address negative acknowledge.
WriteByteAfterWaitAddrNack(c) ==
  /\ At(c, "wb_after")
  /\ LET f == ctx[c]
     IN IF ~f.ret
        THEN /\ SetCtx(c, Return(f, FALSE))
             /\ SetObs(c, Logged(obs[c], <<"w", 0>>))
             /\ UNCHANGED state
        ELSE IF ACKSTAT \in con[GetModuleBase(f.module)]
        THEN /\ state' = [state EXCEPT ![GetState(f.module)] =
                            IF f.stk[2] \in {"wd_addr", "rd_addr", "cd_addr"}
                            THEN "ADDR_NACK" ELSE "DATA_NACK"]
             /\ SetCtx(c, Return(f, FALSE))
             /\ SetObs(c, Logged(Logged(obs[c], <<"nack", f.byte>>),
                                 <<"w", 0>>))
        ELSE /\ SetCtx(c, Return(f, TRUE))
             /\ SetObs(c, Logged(obs[c], <<"w", 1>>))
             /\ UNCHANGED state
  /\ UNCHANGED <<regs, busy, config, callback>>

\* if (!wait) return false;
\* if (*i2c_con & (1 << 15)) { state = DATA_NACK; return false; } return true;
WriteByteAfterWait(c) ==
  /\ At(c, "wb_after")
  /\ LET f == ctx[c]
     IN IF ~f.ret
        THEN /\ SetCtx(c, Return(f, FALSE))
             /\ SetObs(c, Logged(obs[c], <<"w", 0>>))
             /\ UNCHANGED state
        ELSE IF ACKSTAT \in con[GetModuleBase(f.module)]
        THEN /\ state' = [state EXCEPT ![GetState(f.module)] = "DATA_NACK"]
             /\ SetCtx(c, Return(f, FALSE))
             /\ SetObs(c, Logged(Logged(obs[c], <<"nack", f.byte>>),
                                 <<"w", 0>>))
        ELSE /\ SetCtx(c, Return(f, TRUE))
             /\ SetObs(c, Logged(obs[c], <<"w", 1>>))
             /\ UNCHANGED state
  /\ UNCHANGED <<regs, busy, config, callback>>

WriteByteSteps(c) ==
  \/ WriteByteTRN(c)
  \/ WriteByteGo(c)
  \/ WriteByteAfterWait(c)

-----------------------------------------------------------------------------
(* I2C_ReadByte *)

\* if (ack) *i2c_con &= ~(1 << 4); else *i2c_con |= (1 << 4);
ReadByteACKDT(c) ==
  /\ At(c, "rb_ackdt")
  /\ LET f == ctx[c]
         u == GetModuleBase(f.module)
     IN /\ con' = [con EXCEPT ![u] = IF f.ack THEN @ \ {ACKDT}
                                               ELSE @ \cup {ACKDT}]
        /\ SetCtx(c, Goto(f, "rb_rcen"))
        /\ SetObs(c, [obs[c] EXCEPT !.pbusy0 = busy[GetBusyFlag(f.module)]])
  /\ UNCHANGED <<trn, rcv, brg, add, msk, intr, pins, stat, bus, glob>>

\* *i2c_con |= 0x0008; then the call of _I2C_WaitCondition
ReadByteRCEN(c) ==
  /\ At(c, "rb_rcen")
  /\ LET u == GetModuleBase(ctx[c].module)
     IN con' = [con EXCEPT ![u] = @ \cup {RCEN}]
  /\ SetCtx(c, CallWait(ctx[c], "rb_after"))
  /\ SetObs(c, [ObsCallWait(obs[c]) EXCEPT
                  !.log = Append(@, <<"R", Bit(ctx[c].ack)>>)])
  /\ UNCHANGED <<trn, rcv, brg, add, msk, intr, pins, stat, bus, glob>>

\* return (uint8_t)(*i2c_rcv & 0x00FF);  (the wait's result is dropped)
ReadByteAfterWait(c) ==
  /\ At(c, "rb_after")
  /\ LET f == ctx[c]
         b == rcv[GetModuleBase(f.module)] % 256
     IN /\ SetCtx(c, [f EXCEPT !.stk = Tail(f.stk), !.rbyte = b])
        /\ SetObs(c, Logged(obs[c],
                  <<"r", b, IF f.ret THEN "OK"
                                     ELSE state[GetState(f.module)]>>))
  /\ UNCHANGED <<regs, glob>>

ReadByteSteps(c) ==
  \/ ReadByteACKDT(c)
  \/ ReadByteRCEN(c)
  \/ ReadByteAfterWait(c)

-----------------------------------------------------------------------------
(* I2C_WriteData, I2C_ReadData, I2C_CheckDevice *)

\* Mutant of AddressByte: the address is not shifted.
AddressByteNoShift(address, rw) == (address % 256) + rw

\* (address << 1) | rw, passed as a uint8_t
AddressByte(address, rw) == ((address * 2) % 256) + rw

CallWriteByte(f, b, after) == [Call(f, "wb_trn", after) EXCEPT !.byte = b]
CallReadByte(f, a, after) == [Call(f, "rb_ackdt", after) EXCEPT !.ack = a]

\* Mutant of WriteDataEntry: the arguments are not validated.
WriteDataEntryUnchecked(c) ==
  /\ At(c, "wd_entry")
  /\ SetCtx(c, Call(ctx[c], "start_check", "wd_started"))
  /\ UNCHANGED <<regs, glob, obs>>

\* if (length == 0 || data == NULL) return false;  if (!I2C_Start(module)) ...
WriteDataEntry(c) ==
  /\ At(c, "wd_entry")
  /\ LET f == ctx[c]
     IN SetCtx(c, IF f.length = 0 \/ f.isnull
                  THEN Return(f, FALSE)
                  ELSE Call(f, "start_check", "wd_started"))
  /\ UNCHANGED <<regs, glob, obs>>

\* if (!I2C_Start(module)) return false;
\* I2C_WriteByte(module, (address << 1) | 0x00)
WriteDataStarted(c) ==
  /\ At(c, "wd_started")
  /\ LET f == ctx[c]
     IN SetCtx(c, IF ~f.ret
                  THEN Return(f, FALSE)
                  ELSE CallWriteByte(f, AddressByte(f.address, 0), "wd_addr"))
  /\ UNCHANGED <<regs, glob, obs>>

\* for (i...; i < length; ...) I2C_WriteByte(module, data[i]); then I2C_Stop
WriteDataLoop(f) ==
  IF f.i < f.length
  THEN CallWriteByte(f, f.data[f.i + 1], "wd_byte")
  ELSE Call(f, "stop_pen", "wd_final")

\* if (!I2C_WriteByte(address)) { I2C_Stop(module); return false; }
WriteDataAddr(c) ==
  /\ At(c, "wd_addr")
  /\ LET f == ctx[c]
     IN SetCtx(c, IF ~f.ret
                  THEN Call(f, "stop_pen", "wd_fail")
                  ELSE WriteDataLoop([f EXCEPT !.i = 0]))
  /\ UNCHANGED <<regs, glob, obs>>

\* Mutant of WriteDataByte: a failed data byte returns without a Stop.
WriteDataByteNoStop(c) ==
  /\ At(c, "wd_byte")
  /\ LET f == ctx[c]
     IN SetCtx(c, IF ~f.ret
                  THEN Return(f, FALSE)
                  ELSE WriteDataLoop([f EXCEPT !.i = f.i + 1]))
  /\ UNCHANGED <<regs, glob, obs>>

\* if (!I2C_WriteByte(data[i])) { I2C_Stop(module); return false; }  i++
WriteDataByte(c) ==
  /\ At(c, "wd_byte")
  /\ LET f == ctx[c]
     IN SetCtx(c, IF ~f.ret
                  THEN Call(f, "stop_pen", "wd_fail")
                  ELSE WriteDataLoop([f EXCEPT !.i = f.i + 1]))
  /\ UNCHANGED <<regs, glob, obs>>

\* { I2C_Stop(module); return false; }
WriteDataFail(c) ==
  /\ At(c, "wd_fail")
  /\ SetCtx(c, Return(ctx[c], FALSE))
  /\ UNCHANGED <<regs, glob, obs>>

\* return I2C_Stop(module);
WriteDataFinal(c) ==
  /\ At(c, "wd_final")
  /\ SetCtx(c, Return(ctx[c], ctx[c].ret))
  /\ UNCHANGED <<regs, glob, obs>>

WriteDataSteps(c) ==
  \/ WriteDataEntry(c)
  \/ WriteDataStarted(c)
  \/ WriteDataAddr(c)
  \/ WriteDataByte(c)
  \/ WriteDataFail(c)
  \/ WriteDataFinal(c)

\* if (length == 0 || buffer == NULL) return false;  if (!I2C_Start(module)) ...
ReadDataEntry(c) ==
  /\ At(c, "rd_entry")
  /\ LET f == ctx[c]
     IN SetCtx(c, IF f.length = 0 \/ f.isnull
                  THEN Return(f, FALSE)
                  ELSE Call(f, "start_check", "rd_started"))
  /\ UNCHANGED <<regs, glob, obs>>

\* if (!I2C_Start(module)) return false;
\* I2C_WriteByte(module, (address << 1) | 0x01)
ReadDataStarted(c) ==
  /\ At(c, "rd_started")
  /\ LET f == ctx[c]
     IN SetCtx(c, IF ~f.ret
                  THEN Return(f, FALSE)
                  ELSE CallWriteByte(f, AddressByte(f.address, 1), "rd_addr"))
  /\ UNCHANGED <<regs, glob, obs>>

\* Mutant of ReadDataLoop: every byte is acknowledged.
ReadDataLoopAckAll(f) ==
  IF f.i < f.length
  THEN CallReadByte(f, f.i < f.length, "rd_byte")
  ELSE Call(f, "stop_pen", "rd_final")

\* for (i...; i < length; ...) { ack = (i < length - 1); I2C_ReadByte(ack) }
ReadDataLoop(f) ==
  IF f.i < f.length
  THEN CallReadByte(f, f.i < f.length - 1, "rd_byte")
  ELSE Call(f, "stop_pen", "rd_final")

\* if (!I2C_WriteByte(address)) { I2C_Stop(module); return false; }
ReadDataAddr(c) ==
  /\ At(c, "rd_addr")
  /\ LET f == ctx[c]
     IN SetCtx(c, IF ~f.ret
                  THEN Call(f, "stop_pen", "rd_fail")
                  ELSE ReadDataLoop([f EXCEPT !.i = 0]))
  /\ UNCHANGED <<regs, glob, obs>>

\* buffer[i] = I2C_ReadByte(module, ack);  i++
ReadDataByte(c) ==
  /\ At(c, "rd_byte")
  /\ LET f == ctx[c]
     IN SetCtx(c, ReadDataLoop([f EXCEPT !.buffer[f.i + 1] = f.rbyte,
                                         !.i = f.i + 1]))
  /\ UNCHANGED <<regs, glob, obs>>

\* { I2C_Stop(module); return false; }
ReadDataFail(c) ==
  /\ At(c, "rd_fail")
  /\ SetCtx(c, Return(ctx[c], FALSE))
  /\ UNCHANGED <<regs, glob, obs>>

\* return I2C_Stop(module);
ReadDataFinal(c) ==
  /\ At(c, "rd_final")
  /\ SetCtx(c, Return(ctx[c], ctx[c].ret))
  /\ UNCHANGED <<regs, glob, obs>>

ReadDataSteps(c) ==
  \/ ReadDataEntry(c)
  \/ ReadDataStarted(c)
  \/ ReadDataAddr(c)
  \/ ReadDataByte(c)
  \/ ReadDataFail(c)
  \/ ReadDataFinal(c)

\* if (!I2C_Start(module)) return false;
CheckDeviceEntry(c) ==
  /\ At(c, "cd_entry")
  /\ SetCtx(c, Call(ctx[c], "start_check", "cd_started"))
  /\ UNCHANGED <<regs, glob, obs>>

\* bool success = I2C_WriteByte(module, (address << 1) | 0x00);
CheckDeviceStarted(c) ==
  /\ At(c, "cd_started")
  /\ LET f == ctx[c]
     IN SetCtx(c, IF ~f.ret
                  THEN Return(f, FALSE)
                  ELSE CallWriteByte(f, AddressByte(f.address, 0), "cd_addr"))
  /\ UNCHANGED <<regs, glob, obs>>

\* success = ...;  I2C_Stop(module);
CheckDeviceAddr(c) ==
  /\ At(c, "cd_addr")
  /\ LET f == ctx[c]
     IN SetCtx(c, Call([f EXCEPT !.success = f.ret], "stop_pen", "cd_stop"))
  /\ UNCHANGED <<regs, glob, obs>>

\* Mutant of CheckDeviceStop: the result is that of the Stop.
CheckDeviceStopReturnsStop(c) ==
  /\ At(c, "cd_stop")
  /\ SetCtx(c, Return(ctx[c], ctx[c].ret))
  /\ UNCHANGED <<regs, glob, obs>>

\* return success;
CheckDeviceStop(c) ==
  /\ At(c, "cd_stop")
  /\ SetCtx(c, Return(ctx[c], ctx[c].success))
  /\ UNCHANGED <<regs, glob, obs>>

CheckDeviceSteps(c) ==
  \/ CheckDeviceEntry(c)
  \/ CheckDeviceStarted(c)
  \/ CheckDeviceAddr(c)
  \/ CheckDeviceStop(c)

-----------------------------------------------------------------------------
(* I2C_ScanBus *)

\* Mutant of ScanLoop: the loop runs through address 127.
ScanLoopThrough127(f, o) ==
  IF f.addr <= SCAN_END
  THEN <<Call([f EXCEPT !.address = f.addr], "cd_entry", "sb_probe"),
         [IdleObs EXCEPT !.probes = Append(o.probes, f.addr),
                         !.holds = o.holds]>>
  ELSE <<Return(f, f.found > 0), o>>

\* for (uint8_t addr = 1; addr < 127; addr++) if (I2C_CheckDevice(module, addr))
\* and, after the loop, return (found > 0);
ScanLoop(f, o) ==
  IF f.addr < SCAN_END
  THEN <<Call([f EXCEPT !.address = f.addr], "cd_entry", "sb_probe"),
         [IdleObs EXCEPT !.probes = Append(o.probes, f.addr),
                         !.holds = o.holds]>>
  ELSE <<Return(f, f.found > 0), o>>

\* uint8_t found = 0;  addr = 1
ScanEntry(c) ==
  /\ At(c, "sb_entry")
  /\ LET n == ScanLoop([ctx[c] EXCEPT !.found = 0, !.addr = SCAN_FIRST],
                       obs[c])
     IN SetCtx(c, n[1]) /\ SetObs(c, n[2])
  /\ UNCHANGED <<regs, glob>>

\* if (CheckDevice) { if (devices && found < max_devices) devices[found] =
\* addr;  found++; }  addr++
ScanProbe(c) ==
  /\ At(c, "sb_probe")
  /\ LET f == ctx[c]
         g == IF f.ret
              THEN [f EXCEPT
                      !.devices = IF ~f.isnull /\ f.found < f.max_devices
                                  THEN [@ EXCEPT ![f.found + 1] = f.addr]
                                  ELSE @,
                      !.found = (f.found + 1) % 256]
              ELSE f
         n == ScanLoop([g EXCEPT !.addr = f.addr + 1], obs[c])
     IN SetCtx(c, n[1]) /\ SetObs(c, n[2])
  /\ UNCHANGED <<regs, glob>>

ScanBusSteps(c) ==
  \/ ScanEntry(c)
  \/ ScanProbe(c)

-----------------------------------------------------------------------------
(* I2C_ISR_Handler *)

\* Mutant of IsrEntry: the interrupt flag is left set.
IsrEntryKeepsFlag(c) ==
  /\ At(c, "isr_entry")
  /\ LET f == ctx[c]
         m == f.module
     IN SetCtx(c, Goto([f EXCEPT !.cb = IF m \in Units THEN callback[m]
                                                       ELSE "NULL"],
                       "isr_null"))
  /\ UNCHANGED <<regs, glob, obs>>

\* Mutant of IsrEntry: the handler also puts the status back to idle.
IsrEntryResetsStatus(c) ==
  /\ At(c, "isr_entry")
  /\ LET f == ctx[c]
         m == f.module
     IN /\ SetCtx(c, Goto([f EXCEPT !.cb = IF m \in Units THEN callback[m]
                                                          ELSE "NULL"],
                          "isr_null"))
        /\ intr' = IF m \in Units THEN [intr EXCEPT ![m].ifs = 0] ELSE intr
        /\ state' = [state EXCEPT ![GetState(m)] = "IDLE"]
  /\ UNCHANGED <<con, stat, trn, rcv, brg, add, msk, pins, bus, busy, config,
                 callback, obs>>

\* switch(module) { case I2C_MODULE_1: callback = i2c1_callback;
\*   IFS1bits.I2C1BIF = 0; break;  case I2C_MODULE_2: ... }
IsrEntry(c) ==
  /\ At(c, "isr_entry")
  /\ LET f == ctx[c]
         m == f.module
     IN /\ SetCtx(c, Goto([f EXCEPT !.cb = IF m \in Units THEN callback[m]
                                                          ELSE "NULL"],
                          "isr_null"))
        /\ intr' = IF m \in Units THEN [intr EXCEPT ![m].ifs = 0] ELSE intr
  /\ UNCHANGED <<con, stat, trn, rcv, brg, add, msk, pins, bus, glob, obs>>

\* Mutant of IsrNull: the handler waits for the pending operation before it
\* calls back.
IsrNullWaits(c) ==
  /\ At(c, "isr_null")
  /\ LET f == ctx[c]
     IN /\ SetCtx(c, IF f.cb = "NULL" THEN Return(f, FALSE)
                                      ELSE CallWait(f, "isr_event"))
        /\ SetObs(c, IF f.cb = "NULL" THEN obs[c] ELSE ObsCallWait(obs[c]))
  /\ UNCHANGED <<regs, glob>>

\* if (callback == NULL) return;
IsrNull(c) ==
  /\ At(c, "isr_null")
  /\ LET f == ctx[c]
     IN SetCtx(c, IF f.cb = "NULL" THEN Return(f, FALSE)
                                   ELSE Goto(f, "isr_event"))
  /\ UNCHANGED <<regs, glob, obs>>

\* The callback is invoked with an event and a payload.
Invoked(c, event, data) ==
  [obs[c] EXCEPT
     !.calls = Append(@, <<event, data,
                           IF ctx[c].module \in Units
                           THEN intr[ctx[c].module].ifs ELSE 0,
                           ctx[c].cb>>)]

\* Mutant of IsrEvent: the stop bit is tested before the start bit.
IsrEventStopFirst(c) ==
  /\ At(c, "isr_event")
  /\ LET f == ctx[c]
         u == GetModuleBase(f.module)
         st == stat[u]
     IN /\ SetCtx(c, Return(f, FALSE))
        /\ SetObs(c, CASE STAT_STOP \in st -> Invoked(c, "STOP", 0)
                       [] STAT_START \in st -> Invoked(c, "START", 0)
                       [] STAT_RECEIVED \in st ->
                            Invoked(c, "DATA_RECEIVED", rcv[u] % 256)
                       [] STAT_REQUESTED \in st ->
                            Invoked(c, "DATA_REQUESTED", 0)
                       [] OTHER -> obs[c])
  /\ UNCHANGED <<regs, glob>>

\* if (*i2c_stat & (1 << 15)) callback(I2C_EVENT_START, 0);
\* else if (... 14) callback(I2C_EVENT_STOP, 0);
\* else if (... 13) callback(I2C_EVENT_DATA_RECEIVED, *i2c_rcv & 0x00FF);
\* else if (... 12) callback(I2C_EVENT_DATA_REQUESTED, 0);
IsrEvent(c) ==
  /\ At(c, "isr_event")
  /\ LET f == ctx[c]
         u == GetModuleBase(f.module)
         st == stat[u]
     IN /\ SetCtx(c, Return(f, FALSE))
        /\ SetObs(c, CASE STAT_START \in st -> Invoked(c, "START", 0)
                       [] STAT_STOP \in st -> Invoked(c, "STOP", 0)
                       [] STAT_RECEIVED \in st ->
                            Invoked(c, "DATA_RECEIVED", rcv[u] % 256)
                       [] STAT_REQUESTED \in st ->
                            Invoked(c, "DATA_REQUESTED", 0)
                       [] OTHER -> obs[c])
  /\ UNCHANGED <<regs, glob>>

IsrSteps(c) ==
  \/ IsrEntry(c)
  \/ IsrNull(c)
  \/ IsrEvent(c)

\* I2C_IsBusy, I2C_GetLastError
IsBusy(module) == busy[GetBusyFlag(module)]
GetLastError(module) == state[GetState(module)]

-----------------------------------------------------------------------------
(* I2C_Init, I2C_Deinit, I2C_ClearErrors, I2C_SetCallback *)

\* Mutant of CalculateBRG: 1 is subtracted instead of 2.
CalculateBRGMinusOne(fcy, desired_speed) ==
  LET brg0 == U32Sub(fcy \div (2 * desired_speed), 1)
      brg1 == IF brg0[1] > 0 \/ brg0[2] > BRG_MAX THEN U32(BRG_MAX) ELSE brg0
      brg2 == IF brg1[1] = 0 /\ brg1[2] < BRG_MIN THEN U32(BRG_MIN) ELSE brg1
  IN brg2[2]

\* uint32_t brg = (fcy / (2 * desired_speed)) - 2;  clamp;  (uint16_t)brg
CalculateBRG(fcy, desired_speed) ==
  LET brg0 == U32Sub(fcy \div (2 * desired_speed), 2)
      brg1 == IF brg0[1] > 0 \/ brg0[2] > BRG_MAX THEN U32(BRG_MAX) ELSE brg0
      brg2 == IF brg1[1] = 0 /\ brg1[2] < BRG_MIN THEN U32(BRG_MIN) ELSE brg1
  IN brg2[2]

\* The control register as I2C_Init leaves it.
InitCon(cfg) ==
  LET byMode == CASE cfg.mode = "MASTER" -> {I2CEN}
                  [] cfg.mode = "SLAVE_7BIT" -> {I2CEN, SLAVE_BIT}
                  [] cfg.mode = "SLAVE_10BIT" -> {I2CEN, SLAVE_BIT, A10M}
                  [] OTHER -> {}
      smb == IF cfg.smbus_enable THEN {SMBEN} ELSE {}
      slew == IF cfg.slew_rate_control THEN {SLEW_ON} ELSE {SLEW_OFF}
  IN byMode \cup smb \cup slew

\* Mutant of SetCallback: one variable holds the callback of both units.
SetCallbackShared(module, cb) ==
  IF module \in Units THEN [u \in Units |-> cb] ELSE callback

\* switch(module) { case I2C_MODULE_1: ... case I2C_MODULE_2: ... }
SetCallback(module, cb) ==
  IF module \in Units THEN [callback EXCEPT ![module] = cb] ELSE callback

\* A null I2C_Config_t pointer.
NullConfig == [null |-> TRUE]

\* The body of I2C_Init(config).
InitEffect(cfg) ==
  IF cfg = NullConfig
  THEN UNCHANGED <<regs, glob>>
  ELSE LET m == cfg.module
           u == GetModuleBase(m)
       IN /\ config' = [config EXCEPT ![GetConfig(m)] = cfg]
          /\ pins' = IF m \in Units THEN [pins EXCEPT ![m] = TRUE] ELSE pins
          /\ con' = [con EXCEPT ![u] = InitCon(cfg)]
          /\ brg' = [brg EXCEPT ![u] = CalculateBRG(FCY, cfg.speed)]
          /\ add' = [add EXCEPT ![u] =
                       CASE cfg.mode = "SLAVE_7BIT" -> cfg.slave_address * 2
                         [] cfg.mode = "SLAVE_10BIT" -> cfg.slave_address
                         [] OTHER -> @]
          /\ msk' = [msk EXCEPT ![u] =
                       IF cfg.mode = "SLAVE_7BIT" THEN 0 ELSE @]
          /\ intr' = IF cfg.interrupt_enable /\ m \in Units
                     THEN [intr EXCEPT ![m] = [ifs |-> 0, iec |-> 1,
                                               ipc |-> INT_PRIORITY]]
                     ELSE intr
          /\ state' = [state EXCEPT ![GetState(m)] = "IDLE"]
          /\ busy' = [busy EXCEPT ![GetBusyFlag(m)] = FALSE]
          /\ callback' = SetCallback(m, cfg.callback)
          /\ UNCHANGED <<trn, rcv, stat, bus>>

\* I2C_Init as start-up code calls it, between two calls of the driver.
I2C_Init(c, cfg) ==
  /\ ctx[c].stk = <<>>
  /\ InitEffect(cfg)
  /\ UNCHANGED <<ctx, obs>>

\* I2C_Init(&cfg) called like any other operation of the driver.
InitCall(c) ==
  /\ At(c, "init")
  /\ InitEffect(ctx[c].cfg)
  /\ SetCtx(c, Return(ctx[c], FALSE))
  /\ UNCHANGED obs

\* *i2c_con = 0x0000; IECxbits.I2CxBIE = 0; state = IDLE; busy = false;
I2C_Deinit(c) ==
  /\ At(c, "deinit")
  /\ LET module == ctx[c].module
     IN /\ con' = [con EXCEPT ![GetModuleBase(module)] = {}]
        /\ intr' = IF module \in Units
                   THEN [intr EXCEPT ![module].iec = 0] ELSE intr
        /\ state' = [state EXCEPT ![GetState(module)] = "IDLE"]
        /\ busy' = [busy EXCEPT ![GetBusyFlag(module)] = FALSE]
  /\ SetCtx(c, Return(ctx[c], FALSE))
  /\ UNCHANGED <<trn, rcv, brg, add, msk, pins, stat, bus, config, callback,
                 obs>>

\* Mutant of I2C_ClearErrors: the busy flag is released as well.
ClearErrorsFreesUnit(c) ==
  /\ At(c, "clear_errors")
  /\ LET module == ctx[c].module
     IN /\ state' = [state EXCEPT ![GetState(module)] = "IDLE"]
        /\ busy' = [busy EXCEPT ![GetBusyFlag(module)] = FALSE]
        /\ con' = [con EXCEPT ![GetModuleBase(module)] = @ \ {I2COV, IWCOL}]
  /\ SetCtx(c, Return(ctx[c], FALSE))
  /\ UNCHANGED <<trn, rcv, brg, add, msk, intr, pins, stat, bus, config,
                 callback, obs>>

\* state = IDLE; *i2c_con &= ~((1 << 9) | (1 << 8));
I2C_ClearErrors(c) ==
  /\ At(c, "clear_errors")
  /\ LET module == ctx[c].module
     IN /\ state' = [state EXCEPT ![GetState(module)] = "IDLE"]
        /\ con' = [con EXCEPT ![GetModuleBase(module)] = @ \ {I2COV, IWCOL}]
  /\ SetCtx(c, Return(ctx[c], FALSE))
  /\ UNCHANGED <<trn, rcv, brg, add, msk, intr, pins, stat, bus, busy,
                 config, callback, obs>>

\* I2C_SetCallback(module, callback) called from user code.
I2C_SetCallback(c) ==
  /\ At(c, "set_callback")
  /\ callback' = SetCallback(ctx[c].module, ctx[c].cb)
  /\ SetCtx(c, Return(ctx[c], FALSE))
  /\ UNCHANGED <<regs, state, busy, config, obs>>

LifecycleSteps(c) ==
  \/ InitCall(c)
  \/ I2C_Deinit(c)
  \/ I2C_ClearErrors(c)
  \/ I2C_SetCallback(c)

-----------------------------------------------------------------------------
(* The hardware: it changes the register bits the driver polls.  It acts on *)
(* a unit only while one of the pending-operation bits is set there.        *)

InFlight(u) == con[u] \cap PendingMask # {}

\* The pending operation completes: the hardware clears the bits of 0x1F.
\* When a byte transfer was pending, the acknowledge status the driver reads
\* (bit 15) is latched with it: nack says whether the receiver refused.
HwComplete(u, nack) ==
  /\ InFlight(u)
  /\ con' = [con EXCEPT ![u] =
               IF TRN_START \in @
               THEN (@ \ (PendingMask \cup {ACKSTAT}))
                      \cup (IF nack THEN {ACKSTAT} ELSE {})
               ELSE @ \ PendingMask]
  /\ UNCHANGED <<trn, rcv, brg, add, msk, intr, pins, stat, bus, glob, ctx, obs>>

\* A write collision is flagged (bit 8).
HwCollision(u) ==
  /\ InFlight(u)
  /\ IWCOL \notin con[u]
  /\ con' = [con EXCEPT ![u] = @ \cup {IWCOL}]
  /\ UNCHANGED <<trn, rcv, brg, add, msk, intr, pins, stat, bus, glob, ctx, obs>>

\* A receive overflow is flagged (bit 9).
HwOverrun(u) ==
  /\ InFlight(u)
  /\ I2COV \notin con[u]
  /\ con' = [con EXCEPT ![u] = @ \cup {I2COV}]
  /\ UNCHANGED <<trn, rcv, brg, add, msk, intr, pins, stat, bus, glob, ctx, obs>>

\* A byte arrives in the receive register while a reception is enabled.
HwReceive(u, b) ==
  /\ RCEN \in con[u]
  /\ rcv[u] # b
  /\ rcv' = [rcv EXCEPT ![u] = b]
  /\ UNCHANGED <<con, trn, brg, add, msk, intr, pins, stat, bus, glob, ctx, obs>>

Hardware(u) ==
  \/ \E nack \in BOOLEAN : HwComplete(u, nack)
  \/ HwCollision(u)
  \/ HwOverrun(u)

-----------------------------------------------------------------------------
(* Peripherals on the bus of unit 1.  devs are the 7-bit addresses that    *)
(* acknowledge; phase tells what the addressed peripheral expects next;    *)
(* mem holds the bytes written to it, which it sends back from pos on.     *)

\* The pending condition or byte transfer completes on the bus.
BusComplete(u) ==
  /\ InFlight(u)
  /\ LET c == con[u]
         byte == TRN_START \in c /\ c \cap {SEN, RSEN, PEN} = {}
         present == (trn[u] \div 2) \in bus.devs
         acked == CASE bus.phase = "addr" -> present
                    [] bus.phase = "write" -> TRUE
                    [] OTHER -> FALSE
     IN /\ con' = [con EXCEPT ![u] =
                     IF byte
                     THEN (@ \ (PendingMask \cup {ACKSTAT}))
                            \cup (IF acked THEN {} ELSE {ACKSTAT})
                     ELSE @ \ PendingMask]
        /\ bus' = CASE c \cap {SEN, RSEN} # {} ->
                         [bus EXCEPT !.phase = "addr"]
                     [] PEN \in c -> [bus EXCEPT !.phase = "idle"]
                     [] byte /\ bus.phase = "addr" /\ ~present ->
                         [bus EXCEPT !.phase = "idle"]
                     [] byte /\ bus.phase = "addr" /\ trn[u] % 2 = 0 ->
                         [bus EXCEPT !.phase = "write", !.mem = <<>>]
                     [] byte /\ bus.phase = "addr" ->
                         [bus EXCEPT !.phase = "read", !.pos = 1]
                     [] byte /\ bus.phase = "write" ->
                         [bus EXCEPT !.mem = Append(@, trn[u])]
                     [] byte /\ bus.phase = "read" ->
                         [bus EXCEPT !.pos = @ + 1]
                     [] OTHER -> bus
        /\ rcv' = IF byte /\ bus.phase = "read"
                  THEN [rcv EXCEPT ![u] = IF bus.pos <= Len(bus.mem)
                                          THEN bus.mem[bus.pos] ELSE 255]
                  ELSE rcv
  /\ UNCHANGED <<stat, trn, brg, add, msk, intr, pins, glob, ctx, obs>>

\* A slave event: the hardware sets status bits, latches a received word and
\* raises the unit's interrupt flag.  The status holds while a dispatch runs.
StatBits == {STAT_START, STAT_STOP, STAT_RECEIVED, STAT_REQUESTED}
SlaveWords == RcvBytes \cup {427}

HwSlaveEvent(u, bits, w) ==
  /\ pins[u]
  /\ \A c \in Ctxs : ctx[c].op # "ISR"
  /\ stat' = [stat EXCEPT ![u] = bits]
  /\ rcv' = [rcv EXCEPT ![u] = w]
  /\ intr' = [intr EXCEPT ![u].ifs = 1]
  /\ UNCHANGED <<con, trn, brg, add, msk, pins, bus, glob, ctx, obs>>

\* The wait of context c is about to find its budget used up while the
\* hardware has not completed.
Exhausting(c) ==
  /\ At(c, "wait_test")
  /\ ctx[c].tc = U32Zero
  /\ InFlight(GetModuleBase(ctx[c].module))

-----------------------------------------------------------------------------
(* I2C_WriteRegister, I2C_ReadRegister *)

\* uint8_t buffer[2] = {reg_addr, data};
\* return I2C_WriteData(module, dev_addr, buffer, 2);
WriteRegisterEntry(c) ==
  /\ At(c, "wr_entry")
  /\ LET f == ctx[c]
     IN SetCtx(c, Call([f EXCEPT !.data = <<f.reg_addr, f.reg_data>>,
                                 !.length = 2, !.isnull = FALSE],
                       "wd_entry", "wr_return"))
  /\ UNCHANGED <<regs, glob, obs>>

WriteRegisterReturn(c) ==
  /\ At(c, "wr_return")
  /\ SetCtx(c, Return(ctx[c], ctx[c].ret))
  /\ UNCHANGED <<regs, glob, obs>>

\* uint8_t value = 0;  I2C_WriteData(module, dev_addr, &reg_addr, 1)
ReadRegisterEntry(c) ==
  /\ At(c, "rr_entry")
  /\ LET f == ctx[c]
     IN SetCtx(c, Call([f EXCEPT !.value = 0, !.data = <<f.reg_addr>>,
                                 !.length = 1, !.isnull = FALSE],
                       "wd_entry", "rr_written"))
  /\ UNCHANGED <<regs, glob, obs>>

\* Mutant of ReadRegisterWritten: the read follows a failed write too.
ReadRegisterWrittenAlwaysReads(c) ==
  /\ At(c, "rr_written")
  /\ LET f == ctx[c]
     IN SetCtx(c, Call([f EXCEPT !.buffer = <<f.value>>, !.length = 1,
                                 !.isnull = FALSE],
                       "rd_entry", "rr_read"))
  /\ UNCHANGED <<regs, glob, obs>>

\* if (!I2C_WriteData(...)) return 0;
\* I2C_ReadData(module, dev_addr, &value, 1);
ReadRegisterWritten(c) ==
  /\ At(c, "rr_written")
  /\ LET f == ctx[c]
     IN SetCtx(c, IF ~f.ret
                  THEN Return([f EXCEPT !.result = 0], f.ret)
                  ELSE Call([f EXCEPT !.buffer = <<f.value>>, !.length = 1,
                                      !.isnull = FALSE],
                            "rd_entry", "rr_read"))
  /\ UNCHANGED <<regs, glob, obs>>

\* return value;   (ReadData stored through &value, its result is dropped)
ReadRegisterRead(c) ==
  /\ At(c, "rr_read")
  /\ LET f == ctx[c]
     IN SetCtx(c, Return([f EXCEPT !.value = f.buffer[1],
                                  !.result = f.buffer[1]], f.ret))
  /\ UNCHANGED <<regs, glob, obs>>

RegisterSteps(c) ==
  \/ WriteRegisterEntry(c)
  \/ WriteRegisterReturn(c)
  \/ ReadRegisterEntry(c)
  \/ ReadRegisterWritten(c)
  \/ ReadRegisterRead(c)

-----------------------------------------------------------------------------
(* I2C_WaitIdle *)

\* uint32_t timeout_counter = timeout_ms * 1000;
WaitIdleEntry(c) ==
  /\ At(c, "wi_entry")
  /\ SetCtx(c, [Goto(ctx[c], "wi_test") EXCEPT
                  !.tc = TimeoutCounter(ctx[c].timeout_ms)])
  /\ SetObs(c, [obs[c] EXCEPT !.wend = "none"])
  /\ UNCHANGED <<regs, glob>>

\* One evaluation of the loop condition, and the return once it is false:
\*   while ((*i2c_stat & (1 << 14)) && timeout_counter--) { }
\*   return (timeout_counter > 0);
\* The counter is decremented only when the bit is read set.
WaitIdleTest(c) ==
  /\ At(c, "wi_test")
  /\ LET f == ctx[c]
         u == GetModuleBase(f.module)
         dec == U32Dec(f.tc)
     IN IF TRSTAT \notin stat[u]
        THEN /\ SetCtx(c, Return(WaitLeave(f), f.tc # U32Zero))
             /\ SetObs(c, [obs[c] EXCEPT !.wend = "clear",
                                         !.wret = (f.tc # U32Zero)])
        ELSE IF f.tc = U32Zero
        THEN /\ SetCtx(c, Return(WaitLeave(f), dec # U32Zero))
             /\ SetObs(c, [obs[c] EXCEPT !.wend = "exhausted",
                                         !.wret = (dec # U32Zero)])
        ELSE /\ SetCtx(c, [f EXCEPT !.tc = dec])
             /\ UNCHANGED obs
  /\ UNCHANGED <<regs, glob>>

\* The hardware sets or clears bit 14 of the unit's status register.
HwTransmitStatus(u) ==
  /\ stat' = [stat EXCEPT ![u] =
                IF TRSTAT \in @ THEN @ \ {TRSTAT} ELSE @ \cup {TRSTAT}]
  /\ UNCHANGED <<con, trn, rcv, brg, add, msk, intr, pins, bus, glob, ctx, obs>>

-----------------------------------------------------------------------------
(* Calls made by user code *)

EntryLabel(op) ==
  CASE op = "Start" -> "start_check"
    [] op = "Restart" -> "restart_rsen"
    [] op = "Stop" -> "stop_pen"
    [] op = "WriteByte" -> "wb_trn"
    [] op = "ReadByte" -> "rb_ackdt"
    [] op = "WriteData" -> "wd_entry"
    [] op = "ReadData" -> "rd_entry"
    [] op = "CheckDevice" -> "cd_entry"
    [] op = "ScanBus" -> "sb_entry"
    [] op = "RoundTrip" -> "rt_entry"
    [] op = "ISR" -> "isr_entry"
    [] op = "Init" -> "init"
    [] op = "Deinit" -> "deinit"
    [] op = "ClearErrors" -> "clear_errors"
    [] op = "SetCallback" -> "set_callback"
    [] op = "WriteRegister" -> "wr_entry"
    [] op = "ReadRegister" -> "rr_entry"
    [] op = "WaitIdle" -> "wi_entry"

BaseFrame(op, m) ==
  [IdleFrame EXCEPT !.op = op, !.module = m, !.stk = <<EntryLabel(op), "done">>]

\* The argument lists a caller may pass to each operation.
Frames(op, m) ==
  CASE op \in {"Start", "Restart", "Stop", "ISR", "Deinit", "ClearErrors"} ->
         {BaseFrame(op, m)}
    [] op = "SetCallback" ->
         {[BaseFrame(op, m) EXCEPT !.cb = cb] : cb \in Callbacks}
    [] op = "WriteByte" ->
         {[BaseFrame(op, m) EXCEPT !.byte = b] : b \in Bytes}
    [] op = "WaitIdle" ->
         {[BaseFrame(op, m) EXCEPT !.timeout_ms = t] : t \in IdleTimeouts}
    [] op = "WriteRegister" ->
         {[BaseFrame(op, m) EXCEPT !.address = EEPROM_ADDRESS,
                                   !.reg_addr = r, !.reg_data = d] :
            r \in RegIndexes, d \in RegValues}
    [] op = "ReadRegister" ->
         {[BaseFrame(op, m) EXCEPT !.address = EEPROM_ADDRESS,
                                   !.reg_addr = r] : r \in RegIndexes}
    [] op = "ReadByte" ->
         {[BaseFrame(op, m) EXCEPT !.ack = a] : a \in BOOLEAN}
    [] op = "CheckDevice" ->
         {[BaseFrame(op, m) EXCEPT !.address = a] : a \in Addresses}
    [] op = "RoundTrip" ->
         {[BaseFrame(op, m) EXCEPT !.address = EEPROM_ADDRESS, !.data = d,
                                   !.length = Len(d),
                                   !.buffer = [k \in 1..Len(d) |-> 0]] :
            d \in DataInputs}
    [] op = "ScanBus" ->
         {[BaseFrame(op, m) EXCEPT !.max_devices = n,
                                   !.devices = [k \in 1..ScanCap |-> 0]] :
            n \in {1, ScanCap}}
         \cup {[BaseFrame(op, m) EXCEPT !.max_devices = ScanCap,
                                        !.isnull = TRUE]}
    [] op = "WriteData" ->
         {[BaseFrame(op, m) EXCEPT !.address = a, !.data = d,
                                   !.length = Len(d)] :
            a \in Addresses, d \in DataInputs}
         \cup {[BaseFrame(op, m) EXCEPT !.address = a, !.data = d] :
                 a \in Addresses, d \in {<<171>>}}
         \cup {[BaseFrame(op, m) EXCEPT !.address = a, !.isnull = TRUE,
                                        !.length = 1] : a \in Addresses}
    [] op = "ReadData" ->
         {[BaseFrame(op, m) EXCEPT !.address = a, !.length = n,
                                   !.buffer = [k \in 1..n |-> 0]] :
            a \in Addresses, n \in 0..MaxLen}
         \cup {[BaseFrame(op, m) EXCEPT !.address = a, !.isnull = TRUE,
                                        !.length = 1] : a \in Addresses}

\* A context that is not inside a call calls I2C_Init with one of cfgs, or
\* one of the operations ops, which need no initialised unit, on a selector
\* of sels.
InitFrame(cfg) ==
  [BaseFrame("Init", IF cfg = NullConfig THEN 0 ELSE cfg.module)
     EXCEPT !.cfg = cfg]

InvokeLifecycle(c, cfgs, ops, sels) ==
  /\ ctx[c].stk = <<>>
  /\ \E f \in {InitFrame(cfg) : cfg \in cfgs}
              \cup UNION {Frames(op, m) : op \in ops, m \in sels} :
       /\ SetCtx(c, f)
       /\ SetObs(c, [IdleObs EXCEPT !.holds = obs[c].holds])
  /\ UNCHANGED <<regs, glob>>

\* A context that is not inside a call calls operation op on selector m.
Invoke(c, ops, sels) ==
  /\ ctx[c].stk = <<>>
  /\ \E op \in ops, m \in sels :
       /\ pins[GetModuleBase(m)]
       /\ \E f \in Frames(op, m) :
            /\ SetCtx(c, f)
            /\ SetObs(c, [IdleObs EXCEPT !.holds = obs[c].holds])
  /\ UNCHANGED <<regs, glob>>

\* The call has returned to user code, which reads the result.
Finish(c) ==
  /\ At(c, "done")
  /\ SetCtx(c, IdleFrame)
  /\ SetObs(c, [IdleObs EXCEPT !.holds = obs[c].holds])
  /\ UNCHANGED <<regs, glob>>

\* User code that writes a buffer to a peripheral and reads it back:
\*   written = I2C_WriteData(module, address, data, length);
\*   I2C_ReadData(module, address, buffer, length);
RoundTripEntry(c) ==
  /\ At(c, "rt_entry")
  /\ SetCtx(c, Call(ctx[c], "wd_entry", "rt_written"))
  /\ UNCHANGED <<regs, glob, obs>>

RoundTripWritten(c) ==
  /\ At(c, "rt_written")
  /\ LET f == ctx[c]
     IN SetCtx(c, Call([f EXCEPT !.success = f.ret], "rd_entry", "rt_read"))
  /\ UNCHANGED <<regs, glob, obs>>

RoundTripRead(c) ==
  /\ At(c, "rt_read")
  /\ SetCtx(c, Return(ctx[c], ctx[c].ret))
  /\ UNCHANGED <<regs, glob, obs>>

RoundTripSteps(c) ==
  \/ RoundTripEntry(c)
  \/ RoundTripWritten(c)
  \/ RoundTripRead(c)

DriverStepsTxn(c) ==
  \/ WaitSteps(c)
  \/ StartSteps(c)
  \/ StopSteps(c)
  \/ WriteByteSteps(c)
  \/ ReadByteSteps(c)
  \/ WriteDataSteps(c)
  \/ ReadDataSteps(c)
  \/ CheckDeviceSteps(c)

-----------------------------------------------------------------------------
(* Specifications *)

MasterConfigs ==
  {[module |-> m, mode |-> "MASTER", speed |-> 100000, slave_address |-> 0,
    general_call_enable |-> FALSE, slew_rate_control |-> TRUE,
    smbus_enable |-> FALSE, timeout_ms |-> t, interrupt_enable |-> FALSE,
    callback |-> "NULL"] : m \in {I2C_MODULE_1}, t \in TimeoutValues}

ConditionOps == {"Start", "Restart", "Stop", "WriteByte", "ReadByte"}
TransactionOps == {"WriteData", "ReadData", "CheckDevice"}

\* The state of the program when main() begins.
Init ==
  /\ con = [u \in Units |-> {}]
  /\ stat = [u \in Units |-> {}]
  /\ bus = NoBus
  /\ trn = [u \in Units |-> 0]
  /\ rcv = [u \in Units |-> 0]
  /\ brg = [u \in Units |-> 0]
  /\ add = [u \in Units |-> 0]
  /\ msk = [u \in Units |-> 0]
  /\ intr = [u \in Units |-> [ifs |-> 0, iec |-> 0, ipc |-> INT_PRIORITY]]
  /\ pins = [u \in Units |-> FALSE]
  /\ state = [u \in Units |-> "IDLE"]
  /\ busy = [u \in Units |-> FALSE]
  /\ config = [u \in Units |-> ZeroConfig]
  /\ callback = [u \in Units |-> "NULL"]
  /\ ctx = [c \in Ctxs |-> IdleFrame]
  /\ obs = [c \in Ctxs |-> IdleObs]

\* One polled caller issuing conditions and single bytes on unit 1.
Next ==
  \/ \E cfg \in MasterConfigs : I2C_Init(1, cfg)
  \/ Invoke(1, ConditionOps, {I2C_MODULE_1})
  \/ WaitSteps(1)
  \/ StartSteps(1)
  \/ RestartSteps(1)
  \/ StopSteps(1)
  \/ WriteByteSteps(1)
  \/ ReadByteSteps(1)
  \/ Finish(1)
  \/ Hardware(I2C_MODULE_1)

Spec == Init /\ [][Next]_vars

\* One polled caller running whole transactions on unit 1.
NextTxn ==
  \/ \E cfg \in MasterConfigs : I2C_Init(1, cfg)
  \/ Invoke(1, TransactionOps, {I2C_MODULE_1})
  \/ DriverStepsTxn(1)
  \/ Finish(1)
  \/ Hardware(I2C_MODULE_1)

SpecTxn == Init /\ [][NextTxn]_vars

\* Two callers (main line and an interrupt routine, say) sharing unit 1,
\* preempting each other between any two statements.  The unit is
\* initialised once; a caller issues Stop only for a Start of its own.
ConcConfigs == {cfg \in MasterConfigs : cfg.timeout_ms = 6357}

ConcOps(c) ==
  {"Start"} \cup (IF obs[c].holds # 0 THEN {"Stop"} ELSE {})

NextConc ==
  \/ \E cfg \in ConcConfigs : ~pins[I2C_MODULE_1] /\ I2C_Init(1, cfg)
  \/ \E c \in Ctxs :
       \/ Invoke(c, ConcOps(c), {I2C_MODULE_1})
       \/ WaitSteps(c)
       \/ StartSteps(c)
       \/ StopSteps(c)
       \/ Finish(c)
  \/ \E nack \in BOOLEAN : HwComplete(I2C_MODULE_1, nack)

SpecConc == Init /\ [][NextConc]_vars

\* One caller initialising unit 1 and scanning, once, a bus on which every
\* condition and byte transfer completes before the wait's budget is used
\* up.
ScanConfigs == {cfg \in MasterConfigs : cfg.timeout_ms = 6357}

InitScan ==
  /\ con = [u \in Units |-> {}]
  /\ stat = [u \in Units |-> {}]
  /\ bus \in ScanBuses
  /\ trn = [u \in Units |-> 0]
  /\ rcv = [u \in Units |-> 0]
  /\ brg = [u \in Units |-> 0]
  /\ add = [u \in Units |-> 0]
  /\ msk = [u \in Units |-> 0]
  /\ intr = [u \in Units |-> [ifs |-> 0, iec |-> 0, ipc |-> INT_PRIORITY]]
  /\ pins = [u \in Units |-> FALSE]
  /\ state = [u \in Units |-> "IDLE"]
  /\ busy = [u \in Units |-> FALSE]
  /\ config = [u \in Units |-> ZeroConfig]
  /\ callback = [u \in Units |-> "NULL"]
  /\ ctx = [c \in Ctxs |-> IdleFrame]
  /\ obs = [c \in Ctxs |-> IdleObs]

NextScan ==
  \/ \E cfg \in ScanConfigs : ~pins[I2C_MODULE_1] /\ I2C_Init(1, cfg)
  \/ ~busy[I2C_MODULE_1] /\ Invoke(1, {"ScanBus"}, {I2C_MODULE_1})
  \/ ~Exhausting(1) /\ WaitSteps(1)
  \/ StartSteps(1)
  \/ StopSteps(1)
  \/ WriteByteSteps(1)
  \/ CheckDeviceSteps(1)
  \/ ScanBusSteps(1)
  \/ BusComplete(I2C_MODULE_1)

SpecScan == InitScan /\ [][NextScan]_vars

\* One caller writing to and reading back from a peripheral at
\* EEPROM_ADDRESS that acknowledges every byte and returns what was written;
\* every condition and byte transfer completes before the wait's budget is
\* used up.
EchoBus == [NoBus EXCEPT !.devs = {EEPROM_ADDRESS}]

InitEcho ==
  /\ con = [u \in Units |-> {}]
  /\ stat = [u \in Units |-> {}]
  /\ bus = EchoBus
  /\ trn = [u \in Units |-> 0]
  /\ rcv = [u \in Units |-> 0]
  /\ brg = [u \in Units |-> 0]
  /\ add = [u \in Units |-> 0]
  /\ msk = [u \in Units |-> 0]
  /\ intr = [u \in Units |-> [ifs |-> 0, iec |-> 0, ipc |-> INT_PRIORITY]]
  /\ pins = [u \in Units |-> FALSE]
  /\ state = [u \in Units |-> "IDLE"]
  /\ busy = [u \in Units |-> FALSE]
  /\ config = [u \in Units |-> ZeroConfig]
  /\ callback = [u \in Units |-> "NULL"]
  /\ ctx = [c \in Ctxs |-> IdleFrame]
  /\ obs = [c \in Ctxs |-> IdleObs]

NextEcho ==
  \/ \E cfg \in ScanConfigs : ~pins[I2C_MODULE_1] /\ I2C_Init(1, cfg)
  \/ ~busy[I2C_MODULE_1] /\ Invoke(1, {"RoundTrip"}, {I2C_MODULE_1})
  \/ ~Exhausting(1) /\ WaitSteps(1)
  \/ StartSteps(1)
  \/ StopSteps(1)
  \/ WriteByteSteps(1)
  \/ ReadByteSteps(1)
  \/ WriteDataSteps(1)
  \/ ReadDataSteps(1)
  \/ RoundTripSteps(1)
  \/ BusComplete(I2C_MODULE_1)

SpecEcho == InitEcho /\ [][NextEcho]_vars

\* Start-up code configuring either unit at any of the speeds.
SpeedConfigs ==
  {[module |-> m, mode |-> "MASTER", speed |-> sp, slave_address |-> 0,
    general_call_enable |-> FALSE, slew_rate_control |-> TRUE,
    smbus_enable |-> FALSE, timeout_ms |-> 1000, interrupt_enable |-> FALSE,
    callback |-> "NULL"] : m \in Units, sp \in SpeedInputs}

NextSpeed == \E cfg \in SpeedConfigs : I2C_Init(1, cfg)

SpecSpeed == Init /\ [][NextSpeed]_vars

\* Start-up code configuring the units as slaves, with or without a
\* callback; the interrupt routines (context 2) run to completion.
SlaveConfigs ==
  {[module |-> m, mode |-> "SLAVE_7BIT", speed |-> 100000,
    slave_address |-> EEPROM_ADDRESS, general_call_enable |-> FALSE,
    slew_rate_control |-> TRUE, smbus_enable |-> FALSE, timeout_ms |-> 1000,
    interrupt_enable |-> TRUE, callback |-> cb] :
     m \in Units, cb \in {"NULL", "on_event"}}

NextIsr ==
  \/ \E cfg \in SlaveConfigs : ctx[2].stk = <<>> /\ I2C_Init(1, cfg)
  \/ \E u \in Units, bits \in SUBSET StatBits, w \in SlaveWords :
       HwSlaveEvent(u, bits, w)
  \/ Invoke(2, {"ISR"}, Units)
  \/ IsrSteps(2)
  \/ Finish(2)

SpecIsr == Init /\ [][NextIsr]_vars

\* A polled caller on unit 1 (context 1) and the interrupt routine of unit 1
\* (context 2), which preempts it between any two statements and runs to
\* completion, whatever the timeout and the pending bits are.
PreemptConfigs ==
  {[cfg EXCEPT !.interrupt_enable = TRUE, !.callback = "on_event"] :
     cfg \in MasterConfigs}

Polling == ctx[2].stk = <<>>

NextPreempt ==
  \/ \E cfg \in PreemptConfigs : Polling /\ I2C_Init(1, cfg)
  \/ Polling /\ Invoke(1, {"Start", "Stop"}, {I2C_MODULE_1})
  \/ Polling /\ WaitSteps(1)
  \/ Polling /\ StartSteps(1)
  \/ Polling /\ StopSteps(1)
  \/ Polling /\ Finish(1)
  \/ Invoke(2, {"ISR"}, {I2C_MODULE_1})
  \/ IsrSteps(2)
  \/ Finish(2)
  \/ Hardware(I2C_MODULE_1)
  \/ \E bits \in {{}, {STAT_STOP}} : HwSlaveEvent(I2C_MODULE_1, bits, 171)

SpecPreempt == Init /\ [][NextPreempt]_vars

\* Start-up code that initialises the units as slaves and registers
\* callbacks (context 1), and the interrupt routines of both units
\* (context 2), which run to completion.
RegConfigs ==
  {[cfg EXCEPT !.callback = cb] : cfg \in SlaveConfigs, cb \in Callbacks}
    \cup {NullConfig}

NextReg ==
  \/ Polling /\ InvokeLifecycle(1, RegConfigs, {"SetCallback"}, Units)
  \/ Polling /\ InitCall(1)
  \/ Polling /\ I2C_SetCallback(1)
  \/ Polling /\ Finish(1)
  \/ \E u \in Units, bits \in {{}, {STAT_START}} : HwSlaveEvent(u, bits, 171)
  \/ Invoke(2, {"ISR"}, Units)
  \/ IsrSteps(2)
  \/ Finish(2)

SpecReg == Init /\ [][NextReg]_vars

\* One caller that initialises unit 1 and then calls the driver with
\* selectors that name no unit.
AliasOps == {"Start", "Stop", "WriteByte", "Deinit", "ClearErrors"}

NextAlias ==
  \/ \E cfg \in MasterConfigs : I2C_Init(1, cfg)
  \/ Invoke(1, AliasOps, InvalidSelectors)
  \/ WaitSteps(1)
  \/ StartSteps(1)
  \/ StopSteps(1)
  \/ WriteByteSteps(1)
  \/ I2C_Deinit(1)
  \/ I2C_ClearErrors(1)
  \/ Finish(1)
  \/ Hardware(I2C_MODULE_1)

SpecAlias == Init /\ [][NextAlias]_vars

\* One caller that initialises, deinitialises and uses both units, and
\* clears their errors, in any order.  Unit 2 is given no time to wait and
\* its conditions complete or not; unit 1 also meets collisions and
\* overruns.
LifeConfigs ==
  MasterConfigs
    \cup {[cfg EXCEPT !.module = I2C_MODULE_2] :
            cfg \in {k \in MasterConfigs : k.timeout_ms = 0}}
    \cup {NullConfig}

NextLife ==
  \/ InvokeLifecycle(1, LifeConfigs, {"Deinit", "ClearErrors"}, Units)
  \/ Invoke(1, {"Start", "Stop"}, Units)
  \/ InitCall(1)
  \/ I2C_Deinit(1)
  \/ I2C_ClearErrors(1)
  \/ WaitSteps(1)
  \/ StartSteps(1)
  \/ StopSteps(1)
  \/ Finish(1)
  \/ Hardware(I2C_MODULE_1)
  \/ HwComplete(I2C_MODULE_2, FALSE)

SpecLife == Init /\ [][NextLife]_vars

\* One caller on unit 1 that issues conditions and whole transactions,
\* clears errors and re-initialises, in any order.
StuckOps == {"Start", "Stop", "CheckDevice", "WriteData", "ReadData"}

NextStuck ==
  \/ InvokeLifecycle(1, MasterConfigs, {"Deinit", "ClearErrors"},
                     {I2C_MODULE_1})
  \/ Invoke(1, StuckOps, {I2C_MODULE_1})
  \/ InitCall(1)
  \/ I2C_Deinit(1)
  \/ I2C_ClearErrors(1)
  \/ DriverStepsTxn(1)
  \/ Finish(1)
  \/ Hardware(I2C_MODULE_1)

SpecStuck == Init /\ [][NextStuck]_vars

\* One polled caller that initialises unit 1 and calls one blocking
\* operation, against hardware that completes, flags errors or does
\* nothing, as it pleases.  The processor keeps executing the caller's
\* statements.  During a bus scan, 126 probes long, the hardware leaves the
\* pending bits as they are, so that every wait of the scan uses its whole
\* budget.
BlockingOps == ConditionOps \cup TransactionOps

FreshUnit(u) ==
  /\ con[u] = InitCon(config[u])
  /\ ~busy[u]
  /\ state[u] = "IDLE"
  /\ trn[u] = 0
  /\ rcv[u] = 0

CallerSteps(c) ==
  \/ WaitSteps(c)
  \/ StartSteps(c)
  \/ RestartSteps(c)
  \/ StopSteps(c)
  \/ WriteByteSteps(c)
  \/ ReadByteSteps(c)
  \/ WriteDataSteps(c)
  \/ ReadDataSteps(c)
  \/ CheckDeviceSteps(c)
  \/ ScanBusSteps(c)

NextBlock ==
  \/ \E cfg \in MasterConfigs : ~pins[I2C_MODULE_1] /\ I2C_Init(1, cfg)
  \/ /\ FreshUnit(I2C_MODULE_1)
     /\ Invoke(1, BlockingOps \cup {"ScanBus"}, {I2C_MODULE_1})
  \/ CallerSteps(1)
  \/ ctx[1].op # "ScanBus" /\ Hardware(I2C_MODULE_1)

SpecBlock == Init /\ [][NextBlock]_vars /\ WF_vars(CallerSteps(1))

\* One polled caller reading and writing the registers of a peripheral on
\* unit 1.
NextRegister ==
  \/ \E cfg \in MasterConfigs : ~pins[I2C_MODULE_1] /\ I2C_Init(1, cfg)
  \/ Invoke(1, {"WriteRegister", "ReadRegister"}, {I2C_MODULE_1})
  \/ WaitSteps(1)
  \/ StartSteps(1)
  \/ StopSteps(1)
  \/ WriteByteSteps(1)
  \/ ReadByteSteps(1)
  \/ WriteDataSteps(1)
  \/ ReadDataSteps(1)
  \/ RegisterSteps(1)
  \/ Finish(1)
  \/ Hardware(I2C_MODULE_1)
  \/ \E b \in RcvBytes : HwReceive(I2C_MODULE_1, b)

SpecRegister == Init /\ [][NextRegister]_vars

\* Start-up code that initialises the units, each at most once, and may
\* take them with a Start, followed by one call of any operation on either
\* unit, with at most one byte of data.  The hardware of the unit in use
\* completes what is pending, acknowledged or not, or lets the wait run
\* out; a slave event may have been raised before the call.
IsoConfigs ==
  {[cfg EXCEPT !.module = m, !.interrupt_enable = TRUE,
               !.callback = "on_event"] :
     cfg \in {k \in MasterConfigs : k.timeout_ms = 6357}, m \in Units}

IsoOps ==
  ConditionOps \cup TransactionOps
    \cup {"WriteRegister", "ReadRegister", "ISR"}

IsoArgs(f) ==
  /\ f.address \in {0, EEPROM_ADDRESS}
  /\ f.length <= 1
  /\ ~f.isnull
  /\ f.reg_addr = 0
  /\ f.reg_data \in {0, 171}
  /\ f.cb \in {"NULL", "on_other"}
  /\ f.op = "Init" => ~pins[f.module]

NextIso ==
  \/ /\ InvokeLifecycle(1, IsoConfigs,
                        {"Deinit", "ClearErrors", "SetCallback"}, Units)
     /\ IsoArgs(ctx'[1])
  \/ Invoke(1, IsoOps, Units) /\ IsoArgs(ctx'[1])
  \/ InitCall(1)
  \/ I2C_Deinit(1)
  \/ I2C_ClearErrors(1)
  \/ I2C_SetCallback(1)
  \/ WaitSteps(1)
  \/ StartSteps(1)
  \/ RestartSteps(1)
  \/ StopSteps(1)
  \/ WriteByteSteps(1)
  \/ ReadByteSteps(1)
  \/ WriteDataSteps(1)
  \/ ReadDataSteps(1)
  \/ CheckDeviceSteps(1)
  \/ RegisterSteps(1)
  \/ IsrSteps(1)
  \/ /\ ctx[1].op = "Init" \/ (ctx[1].op = "Start" /\ ctx[1].ret)
     /\ Finish(1)
  \/ \E nack \in BOOLEAN :
       ctx[1].stk # <<>> /\ HwComplete(GetModuleBase(ctx[1].module), nack)
  \/ \E u \in Units :
       /\ ctx[1].stk = <<>>
       /\ intr[u].ifs = 0
       /\ HwSlaveEvent(u, {STAT_START}, 171)

SpecIso == Init /\ [][NextIso]_vars

-----------------------------------------------------------------------------
(* Properties *)

Sel(log, tag) == SelectSeq(log, LAMBDA e : e[1] = tag)
Requests(log) ==
  SelectSeq(log, LAMBDA e : e[1] \in {"S", "Sr", "P", "W", "R"})
Has(log, e) == \E k \in 1..Len(log) : log[k] = e

Done(c, op) == At(c, "done") /\ ctx[c].op = op
WaitErrors == {"TIMEOUT", "BUS_COLLISION", "OVERRUN"}

\* C1: a Start on a unit whose busy flag is set returns failure without
\* invoking the wait primitive and without asserting the start bit, and
\* leaves the busy flag and the status code as they were.
C1_StartOnBusyFailsAtOnce ==
  \A c \in Ctxs :
    (Done(c, "Start") /\ obs[c].pbusy0) =>
      /\ ~ctx[c].ret
      /\ obs[c].waits = 0
      /\ Requests(obs[c].log) = <<>>
      /\ IsBusy(ctx[c].module)
      /\ GetLastError(ctx[c].module) = obs[c].pstate0

C1_Witness ==
  \E c \in Ctxs : Done(c, "Start") /\ obs[c].pbusy0 /\ obs[c].pstate0 # "BUSY"

\* C2: for two contexts calling Start on the same unit, interleaved at
\* arbitrary points, at most one is ever between a successful Start and its
\* Stop.
C2_MutualExclusion ==
  \A u \in Units : Cardinality({c \in Ctxs : obs[c].holds = u}) <= 1

\* C3: in WriteData, ReadData and CheckDevice, when the initial Start
\* succeeds exactly one Stop is issued, after every byte, before the
\* operation returns; when the Start fails no byte and no Stop is issued.
C3_ExactlyOneStop ==
  \A c \in Ctxs :
    (At(c, "done") /\ ctx[c].op \in TransactionOps) =>
      LET log == obs[c].log
          req == Requests(log)
      IN IF Has(log, <<"s", 1>>)
         THEN /\ Len(Sel(log, "P")) = 1
              /\ Len(Sel(log, "S")) = 1
              /\ req[1][1] = "S"
              /\ req[Len(req)][1] = "P"
         ELSE \A k \in 1..Len(req) : req[k][1] = "S"

C3_Witness ==
  \E c \in Ctxs :
    /\ Done(c, "WriteData")
    /\ Has(obs[c].log, <<"s", 1>>)
    /\ Has(obs[c].log, <<"w", 1>>)
    /\ Has(obs[c].log, <<"w", 0>>)
    /\ Has(obs[c].log, <<"p", 0>>)

\* C4: WriteData with length >= 1 transmits, after a successful Start, the
\* address byte (address << 1, direction bit 0) and then data[0..length-1]
\* in index order, each once, nothing after the first failed byte, and it
\* returns success iff Start, every byte write and the Stop succeeded.
C4_WriteDataSequence ==
  \A c \in Ctxs :
    (Done(c, "WriteData") /\ ctx[c].length >= 1 /\ ~ctx[c].isnull) =>
      LET f == ctx[c]
          log == obs[c].log
          W == Sel(log, "W")
          w == Sel(log, "w")
          exp == <<(2 * f.address) % 256>> \o f.data
          started == Has(log, <<"s", 1>>)
      IN /\ started =>
              /\ Len(W) \in 1..Len(exp)
              /\ \A k \in 1..Len(W) : W[k][2] = exp[k]
              /\ Len(w) = Len(W)
              /\ \A k \in 1..(Len(W) - 1) : w[k][2] = 1
              /\ Len(W) < Len(exp) => w[Len(W)][2] = 0
         /\ ~started => W = <<>>
         /\ f.ret <=> /\ started
                      /\ Len(W) = Len(exp)
                      /\ \A k \in 1..Len(w) : w[k][2] = 1
                      /\ Has(log, <<"p", 1>>)

C4_Witness ==
  \E c \in Ctxs :
    /\ Done(c, "WriteData")
    /\ ctx[c].length = MaxLen
    /\ ctx[c].ret
    /\ Len(Sel(obs[c].log, "W")) = MaxLen + 1

\* C5: a ReadData of N bytes whose Start and address byte succeed performs
\* exactly N byte reads, acknowledging reads 1..N-1 and negatively
\* acknowledging read N only.
C5_NackOnLastReadOnly ==
  \A c \in Ctxs :
    (Done(c, "ReadData") /\ Has(obs[c].log, <<"s", 1>>)
       /\ Has(obs[c].log, <<"w", 1>>)) =>
      LET N == ctx[c].length
      IN Sel(obs[c].log, "R") =
           [k \in 1..N |-> <<"R", IF k < N THEN 1 ELSE 0>>]

C5_Witness ==
  \E c \in Ctxs :
    /\ Done(c, "ReadData")
    /\ ctx[c].length = MaxLen
    /\ Len(Sel(obs[c].log, "R")) = MaxLen

\* C6: when its wait succeeds, Stop clears the busy flag and sets the status
\* to idle; when its wait fails, Stop returns failure, leaves the busy flag
\* as it was before the call, and the status is the wait's error code.
C6_StopOutcome ==
  \A c \in Ctxs :
    Done(c, "Stop") =>
      IF obs[c].wret
      THEN /\ ctx[c].ret
           /\ ~IsBusy(ctx[c].module)
           /\ GetLastError(ctx[c].module) = "IDLE"
      ELSE /\ ~ctx[c].ret
           /\ IsBusy(ctx[c].module) = obs[c].pbusy0
           /\ GetLastError(ctx[c].module) \in WaitErrors

C6_Witness ==
  \E c \in Ctxs : Done(c, "Stop") /\ ~obs[c].wret /\ obs[c].pbusy0

\* C7: a Start on a unit not marked busy sets the busy flag and the status
\* busy before its wait begins; if the wait succeeds it returns success with
\* the flag set and the status busy; if the wait fails it returns failure
\* with the flag cleared and the status holding the wait's error code.
C7_StartOutcome ==
  \A c \in Ctxs :
    /\ (ctx[c].op = "Start" /\ Len(ctx[c].stk) = 3) =>
         /\ IsBusy(ctx[c].module)
         /\ GetLastError(ctx[c].module) = "BUSY"
    /\ (Done(c, "Start") /\ ~obs[c].pbusy0) =>
         IF obs[c].wret
         THEN /\ ctx[c].ret
              /\ IsBusy(ctx[c].module)
              /\ GetLastError(ctx[c].module) = "BUSY"
         ELSE /\ ~ctx[c].ret
              /\ ~IsBusy(ctx[c].module)
              /\ GetLastError(ctx[c].module) \in WaitErrors

C7_Witness ==
  \E c \in Ctxs :
    /\ Done(c, "Start")
    /\ ~obs[c].pbusy0
    /\ ~obs[c].wret
    /\ GetLastError(ctx[c].module) = "BUS_COLLISION"

\* C8: after a WriteData that failed at the address byte or at a data byte,
\* IsBusy is false if the trailing Stop succeeded and true if it failed.
C8_BusyAfterFailedWrite ==
  \A c \in Ctxs :
    (Done(c, "WriteData") /\ Has(obs[c].log, <<"w", 0>>)) =>
      LET p == Sel(obs[c].log, "p")
      IN /\ Len(p) = 1
         /\ IsBusy(ctx[c].module) <=> (p[1][2] = 0)

C8_Witness ==
  \E c \in Ctxs :
    /\ Done(c, "WriteData")
    /\ Has(obs[c].log, <<"w", 0>>)
    /\ Has(obs[c].log, <<"p", 0>>)
    /\ IsBusy(ctx[c].module)

\* C9: when the pending bits stay set for the whole iteration budget and
\* neither the collision nor the overrun flag is set, the wait sets the
\* status to timeout and Start, Restart, Stop and WriteByte return failure.
C9_TimeoutReported ==
  \A c \in Ctxs :
    (At(c, "done") /\ ctx[c].op \in {"Start", "Restart", "Stop", "WriteByte"}
       /\ obs[c].wend = "exhausted" /\ obs[c].wflags = {}) =>
      /\ ~ctx[c].ret
      /\ GetLastError(ctx[c].module) = "TIMEOUT"

\* C10: if the collision flag is set during Start's wait, the status becomes
\* bus-collision and Start returns failure, also when the pending bits clear
\* in the same iteration and when this happens on the last iteration.
C10_CollisionPrecedence ==
  \A c \in Ctxs :
    (Done(c, "Start") /\ obs[c].wend \in {"clear", "exhausted"}
       /\ obs[c].wflags = {IWCOL}) =>
      /\ ~ctx[c].ret
      /\ GetLastError(ctx[c].module) = "BUS_COLLISION"

\* C11: WriteByte returns success iff its wait succeeded and the
\* acknowledge-status bit is clear; wait success with the bit set records
\* data-negative-acknowledge and fails; wait failure fails with the wait's
\* error code as status; no step of WriteByte changes the busy flag.
C11_WriteByteOutcome ==
  [][\A c \in Ctxs :
       /\ (At(c, "wb_after") /\ ctx'[c] # ctx[c]) =>
            LET f == ctx[c]
                u == GetModuleBase(f.module)
                nack == ACKSTAT \in con[u]
            IN /\ ctx'[c].ret <=> (f.ret /\ ~nack)
               /\ (f.ret /\ nack) => state'[u] = "DATA_NACK"
               /\ (f.ret /\ ~nack) => state' = state
               /\ ~f.ret => (state' = state /\ state[u] \in WaitErrors)
       /\ (ctx[c].op = "WriteByte" /\ ctx'[c].op = "WriteByte") =>
            busy' = busy]_vars

C11_Witness ==
  \E c \in Ctxs :
    /\ Done(c, "WriteByte")
    /\ obs[c].wret
    /\ ~ctx[c].ret
    /\ GetLastError(ctx[c].module) = "DATA_NACK"
    /\ IsBusy(ctx[c].module)

\* C12: if the wait of a byte read inside ReadData fails, then after ReadData
\* returns either it returned failure or the unit's status code is the error
\* code of the failed read.
C12_FailedReadDetectable ==
  \A c \in Ctxs :
    Done(c, "ReadData") =>
      \A k \in 1..Len(obs[c].log) :
        (obs[c].log[k][1] = "r" /\ obs[c].log[k][3] # "OK") =>
          \/ ~ctx[c].ret
          \/ GetLastError(ctx[c].module) = obs[c].log[k][3]

\* C13: after WriteData or CheckDevice returns failure because the address
\* byte or a data byte was negatively acknowledged, GetLastError returns the
\* negative-acknowledge status code, whatever the outcome of the trailing
\* Stop.
C13_NackStatusSurvivesStop ==
  \A c \in Ctxs :
    (At(c, "done") /\ ctx[c].op \in {"WriteData", "CheckDevice"}
       /\ ~ctx[c].ret /\ Sel(obs[c].log, "nack") # <<>>) =>
      GetLastError(ctx[c].module) = "DATA_NACK"

Min(a, b) == IF a < b THEN a ELSE b
Ascending(S) ==
  CHOOSE q \in [1..Cardinality(S) -> S] :
    \A i, j \in 1..Cardinality(S) : i < j => q[i] < q[j]

\* C14: on a bus where exactly the addresses of D acknowledge and every
\* condition completes, ScanBus started on an idle unit returns true iff D is
\* non-empty and writes into the output list exactly the first
\* min(|D|, max_devices) addresses of D in ascending order, nothing at index
\* max_devices or beyond, and nothing when no list is supplied.
C14_ScanFindsDevices ==
  \A c \in Ctxs :
    Done(c, "ScanBus") =>
      LET f == ctx[c]
          D == bus.devs
          n == Min(Cardinality(D), f.max_devices)
      IN /\ f.ret <=> (D # {})
         /\ f.isnull => f.devices = <<>>
         /\ ~f.isnull =>
              f.devices = [k \in 1..ScanCap |->
                             IF k <= n THEN Ascending(D)[k] ELSE 0]

\* C15: ScanBus probes every address 1..126 exactly once, in strictly
\* ascending order, never address 0 or 127, and the addresses recorded in the
\* output list are strictly ascending.
C15_ScanOrder ==
  \A c \in Ctxs :
    ctx[c].op = "ScanBus" =>
      LET f == ctx[c]
          p == obs[c].probes
          n == Min(f.found, f.max_devices)
      IN /\ Len(p) <= SCAN_END - 1
         /\ \A k \in 1..Len(p) : p[k] = k
         /\ At(c, "done") => Len(p) = SCAN_END - 1
         /\ ~f.isnull =>
              \A i, j \in 1..n : i < j => f.devices[i] < f.devices[j]

C15_Witness ==
  \E c \in Ctxs :
    /\ Done(c, "ScanBus")
    /\ ctx[c].found = 2
    /\ ctx[c].devices = <<LM75_ADDRESS, EEPROM_ADDRESS>>

\* C16: on a peripheral that echoes what was written and acknowledges every
\* byte, with every condition completing, WriteData of b[0..n-1] followed by
\* ReadData of n bytes from the same address returns success both times and
\* fills the read buffer with b[0..n-1] in the same order.
C16_RoundTrip ==
  \A c \in Ctxs :
    Done(c, "RoundTrip") =>
      /\ ctx[c].success
      /\ ctx[c].ret
      /\ ctx[c].buffer = ctx[c].data

\* The divider cycles div (2 * speed) - 2 in unbounded integers.
ExactDivider(sp) == (FCY \div (2 * sp)) - 2

\* C17: for the 40 MHz instruction clock and every speed s >= 1 whose exact
\* value cycles div (2s) - 2 lies in [2, 65535], the computed divider equals
\* that value.
C17_DividerExact ==
  \A u \in Units :
    (pins[u] /\ ExactDivider(config[u].speed) \in BRG_MIN..BRG_MAX) =>
      brg[u] = ExactDivider(config[u].speed)

C17_Witness ==
  \E u \in Units : pins[u] /\ config[u].speed = 400000 /\ brg[u] = 48

\* C18: for every speed s >= 1 whose exact value is below 2 (negative
\* included) the divider is 2, and for every s whose exact value exceeds
\* 65535 the divider is 65535; a too-small value never wraps to the upper
\* bound.
C18_DividerClamped ==
  \A u \in Units :
    pins[u] =>
      /\ ExactDivider(config[u].speed) < BRG_MIN => brg[u] = BRG_MIN
      /\ ExactDivider(config[u].speed) > BRG_MAX => brg[u] = BRG_MAX

\* The event and payload the handler owes for a status word and a receive
\* register: none when no bit is set.
OwedCall(st, w) ==
  CASE STAT_START \in st -> <<<<"START", 0>>>>
    [] STAT_STOP \in st -> <<<<"STOP", 0>>>>
    [] STAT_RECEIVED \in st -> <<<<"DATA_RECEIVED", w % 256>>>>
    [] STAT_REQUESTED \in st -> <<<<"DATA_REQUESTED", 0>>>>
    [] OTHER -> <<>>

\* C19: each dispatch invokes the registered callback at most once, with the
\* event of the highest-priority status bit that is set (start, stop,
\* byte-received, byte-requested); the payload is the low byte of the
\* receive register for byte-received and 0 otherwise; with none of the four
\* bits set, or no callback registered, nothing is invoked.
C19_DispatchPriority ==
  \A c \in Ctxs :
    Done(c, "ISR") =>
      LET m == ctx[c].module
          made == [k \in 1..Len(obs[c].calls) |->
                     <<obs[c].calls[k][1], obs[c].calls[k][2]>>]
      IN made = IF callback[m] = "NULL" THEN <<>>
                ELSE OwedCall(stat[m], rcv[m])

C19_Witness ==
  \E c \in Ctxs :
    /\ Done(c, "ISR")
    /\ stat[ctx[c].module] = {STAT_RECEIVED, STAT_REQUESTED}
    /\ rcv[ctx[c].module] = 427
    /\ Len(obs[c].calls) = 1
    /\ obs[c].calls[1][1] = "DATA_RECEIVED"
    /\ obs[c].calls[1][2] = 171

\* C20: for each of the two units, a dispatch clears that unit's
\* interrupt-pending flag first and changes nothing else; with no callback
\* registered it invokes nothing, and with a callback registered the flag is
\* already cleared when the callback is invoked.
C20_DispatchClearsFlag ==
  [][\A c \in Ctxs :
       (ctx[c].op = "ISR" /\ ~At(c, "done") /\ ctx'[c] # ctx[c]) =>
         LET m == ctx[c].module
         IN /\ At(c, "isr_entry") =>
                 intr' = [intr EXCEPT ![m].ifs = 0] /\ obs' = obs
            /\ ~At(c, "isr_entry") => intr' = intr /\ intr[m].ifs = 0
            /\ <<con, stat, trn, rcv, brg, add, msk, pins, bus>>
                 = <<con', stat', trn', rcv', brg', add', msk', pins', bus'>>
            /\ <<state, busy, config, callback>>
                 = <<state', busy', config', callback'>>
            /\ callback[m] = "NULL" => obs'[c].calls = <<>>
            /\ \A k \in 1..Len(obs'[c].calls) : obs'[c].calls[k][3] = 0]_vars

C20_Witness ==
  \E c \in Ctxs :
    /\ Done(c, "ISR")
    /\ ctx[c].module = I2C_MODULE_2
    /\ Len(obs[c].calls) = 1
    /\ obs[c].calls[1][3] = 0
    /\ intr[I2C_MODULE_2].ifs = 0
    /\ intr[I2C_MODULE_1].ifs = 1

\* The position of a dispatch in the handler: a dispatch is at one of these
\* statements or has returned.
IsrRank(f) ==
  CASE f.stk = <<"isr_entry", "done">> -> 0
    [] f.stk = <<"isr_null", "done">> -> 1
    [] f.stk = <<"isr_event", "done">> -> 2
    [] f.stk = <<"done">> -> 3
    [] OTHER -> -1

\* C21: a dispatch of the slave event handler never invokes the wait
\* primitive and asserts no condition and starts no byte transfer; every
\* step of it moves forward through the handler's three statements, so it
\* completes within three steps whatever the configured timeout and the
\* pending bits are.
C21_DispatchNeverWaits ==
  [][\A c \in Ctxs :
       /\ ctx'[c].op = "ISR" =>
            /\ IsrRank(ctx'[c]) >= 0
            /\ obs'[c].waits = 0
            /\ obs'[c].log = <<>>
       /\ (ctx[c].op = "ISR" /\ ctx'[c].op = "ISR" /\ ctx'[c] # ctx[c]) =>
            IsrRank(ctx'[c]) > IsrRank(ctx[c])]_vars

C21_Witness ==
  /\ Done(2, "ISR")
  /\ Len(obs[2].calls) = 1
  /\ InFlight(I2C_MODULE_1)
  /\ config[I2C_MODULE_1].timeout_ms = 6357
  /\ At(1, "wait_body")

\* Context c executes the statement at label l in this step.
Steps(c, l) == At(c, l) /\ ctx'[c] # ctx[c]

\* The registration this step makes, as <<unit, callback>>: by SetCallback,
\* or by Init with a configuration that names a unit.
Registration(c) ==
  IF Steps(c, "set_callback") /\ ctx[c].module \in Units
  THEN {<<ctx[c].module, ctx[c].cb>>}
  ELSE IF Steps(c, "init") /\ ctx[c].cfg # NullConfig
          /\ ctx[c].cfg.module \in Units
  THEN {<<ctx[c].cfg.module, ctx[c].cfg.callback>>}
  ELSE {}

\* C22: last registration wins, per unit.  A registration for unit u by
\* SetCallback or by Init (with the callback of its configuration, none
\* included) makes that callback the one of u and leaves the other unit's
\* callback alone; nothing else changes a callback; a dispatch for u invokes
\* the callback that u has then.
C22_LastRegistrationWins ==
  [][\A c \in Ctxs :
       /\ \A r \in Registration(c) :
            callback' = [callback EXCEPT ![r[1]] = r[2]]
       /\ (\A d \in Ctxs : Registration(d) = {}) => callback' = callback
       /\ Steps(c, "isr_event") =>
            \A k \in 1..Len(obs'[c].calls) :
              obs'[c].calls[k][4] = callback[ctx[c].module]
       /\ (Steps(c, "isr_null") /\ callback[ctx[c].module] # "NULL") =>
            At(c, "isr_event")']_vars

C22_Witness ==
  /\ Done(2, "ISR")
  /\ ctx[2].module = I2C_MODULE_2
  /\ Len(obs[2].calls) = 1
  /\ obs[2].calls[1][4] = "on_other"
  /\ config[I2C_MODULE_2].callback = "on_event"
  /\ callback[I2C_MODULE_1] = "on_event"

\* The busy flag, status code, stored configuration and registers of unit u.
UnitState(u) ==
  <<busy[u], state[u], config[u], con[u], stat[u], trn[u], rcv[u], brg[u],
    add[u], msk[u]>>

\* C23: an operation called with a selector that names no unit modifies
\* neither the busy flag, nor the status code, nor the stored configuration,
\* nor the registers of unit 1.
C23_InvalidSelectorNoAlias ==
  [][\A c \in Ctxs :
       (ctx[c].stk # <<>> /\ ctx[c].module \notin Units
          /\ ctx'[c] # ctx[c]) =>
         UnitState(I2C_MODULE_1)' = UnitState(I2C_MODULE_1)]_vars

\* Context c executes the statement at label l of an operation whose
\* selector resolves to unit u.
StepsOn(c, l, u) == Steps(c, l) /\ GetState(ctx[c].module) = u

\* Unit u's status code goes from a non-idle value to idle in this step.
BackToIdle(u) == state[u] # "IDLE" /\ state'[u] = "IDLE"

\* C24, as claimed: the status code of a unit changes to idle only through
\* a successful Stop or through ClearErrors.
C24_IdleOnlyByStopOrClear ==
  [][\A u \in Units :
       BackToIdle(u) =>
         \E c \in Ctxs : \/ StepsOn(c, "stop_idle", u)
                         \/ StepsOn(c, "clear_errors", u)]_vars

\* C24, amended: the status code of a unit changes to idle only through a
\* successful Stop, ClearErrors, Deinit, or Init with a configuration (not
\* null) for that unit.
C24_IdleOnlyByStopClearOrReset ==
  [][\A u \in Units :
       BackToIdle(u) =>
         \E c \in Ctxs : \/ StepsOn(c, "stop_idle", u)
                         \/ StepsOn(c, "clear_errors", u)
                         \/ StepsOn(c, "deinit", u)
                         \/ /\ StepsOn(c, "init", u)
                            /\ ctx[c].cfg # NullConfig]_vars

\* ClearErrors has put the status of unit 1 back to idle while the unit is
\* still marked busy by a Start whose Stop has not succeeded.
C24_Witness ==
  /\ Done(1, "ClearErrors")
  /\ ctx[1].module = I2C_MODULE_1
  /\ state[I2C_MODULE_1] = "IDLE"
  /\ busy[I2C_MODULE_1]
  /\ state[I2C_MODULE_2] = "BUSY"

\* C26: the stored configuration of a unit is modified only by Init with a
\* configuration that is not null, which copies every field into the
\* object of the unit the configuration names and leaves the other unit's
\* alone; Init with a null configuration changes nothing at all; no other
\* operation changes a stored configuration.
C26_ConfigOnlyByInit ==
  [][\A c \in Ctxs :
       IF Steps(c, "init")
       THEN IF ctx[c].cfg = NullConfig
            THEN UNCHANGED <<regs, glob>>
            ELSE ctx[c].cfg.module \in Units =>
                   config' = [config EXCEPT ![ctx[c].cfg.module] = ctx[c].cfg]
       ELSE (\A d \in Ctxs : ~Steps(d, "init")) => config' = config]_vars

C26_Witness ==
  /\ Done(1, "Init")
  /\ ctx[1].cfg # NullConfig
  /\ config[I2C_MODULE_2].module = I2C_MODULE_2
  /\ config[I2C_MODULE_2].timeout_ms = 0
  /\ config[I2C_MODULE_1].module = I2C_MODULE_1
  /\ config[I2C_MODULE_1].timeout_ms = 6357
  /\ busy[I2C_MODULE_1]

\* The operations that begin with a Start.
StartingOps == {"Start", "WriteData", "ReadData", "CheckDevice"}

\* C25: once set, the busy flag of a unit is released only by Init, by
\* Deinit, by a successful Stop, or by the failure of a Start that had found
\* the unit free; so after a failed Stop it stays set until one of the first
\* three.  While it is set every Start returns failure at once and changes
\* nothing, and a Start, WriteData, ReadData or CheckDevice whose Start
\* found it set fails without a wait, a condition or a byte.  ClearErrors
\* sets the status to idle, clears the two error bits and changes nothing
\* else, the busy flag included.
C25_BusyStaysSet ==
  [][\A c \in Ctxs :
       LET f == ctx[c]
           u == GetBusyFlag(f.module)
       IN /\ \A v \in Units :
               (busy[v] /\ ~busy'[v]) =>
                 \E d \in Ctxs :
                   /\ GetBusyFlag(ctx[d].module) = v
                   /\ \/ Steps(d, "init") /\ ctx[d].cfg # NullConfig
                      \/ Steps(d, "deinit")
                      \/ Steps(d, "stop_after") /\ ctx[d].ret
                      \/ /\ Steps(d, "start_after")
                         /\ ~ctx[d].ret
                         /\ ~obs[d].pbusy0
          /\ (Steps(c, "start_check") /\ busy[u]) =>
               /\ ctx'[c].stk = Tail(f.stk)
               /\ ~ctx'[c].ret
               /\ UNCHANGED <<regs, glob>>
          /\ Steps(c, "clear_errors") =>
               /\ state' = [state EXCEPT ![u] = "IDLE"]
               /\ con' = [con EXCEPT ![u] = @ \ {IWCOL, I2COV}]
               /\ UNCHANGED <<stat, trn, rcv, brg, add, msk, intr, pins, bus,
                              busy, config, callback>>
          /\ (At(c, "done") /\ f.op \in StartingOps
                /\ obs[c].log # <<>> /\ obs[c].log[1] = <<"s", 0>>) =>
               /\ ~f.ret
               /\ obs[c].log = <<<<"s", 0>>>>
               /\ obs[c].waits = 0
               /\ busy[u]]_vars

\* A WriteData has failed at once on a unit whose busy flag a failed Stop
\* left set, after ClearErrors put the status back to idle.
C25_Witness ==
  /\ Done(1, "WriteData")
  /\ ctx[1].length > 0
  /\ ~ctx[1].isnull
  /\ obs[1].log = <<<<"s", 0>>>>
  /\ obs[1].holds = 0
  /\ busy[I2C_MODULE_1]
  /\ state[I2C_MODULE_1] = "IDLE"

\* The value of a uint32_t whose high word is small.
U32Val(x) == x[1] * Word + x[2]

\* The wait primitive is on context c's stack.
Waiting(c) == \E l \in {"wait_test", "wait_body", "wait_exit"} : At(c, l)

\* C27: bounded blocking.  The wait primitive starts with a budget of at
\* most timeout_ms x 1000, every polling iteration takes one from it and
\* none is made without budget, whatever the hardware bits do; and every
\* call of a blocking operation returns.
C27_BoundedBlocking ==
  /\ [][\A c \in Ctxs :
          LET f == ctx[c]
              limit == config[GetConfig(f.module)].timeout_ms * IterPerMs
          IN /\ (~Waiting(c) /\ Waiting(c)') => U32Val(ctx'[c].tc) <= limit
             /\ (Steps(c, "wait_test") /\ At(c, "wait_body")') =>
                  /\ U32Val(f.tc) > 0
                  /\ U32Val(ctx'[c].tc) = U32Val(f.tc) - 1
             /\ Steps(c, "wait_body") =>
                  /\ ctx'[c].tc \in {f.tc, U32Zero}
                  /\ ~At(c, "wait_body")']_vars
  /\ \A c \in Ctxs : (ctx[c].stk # <<>>) ~> At(c, "done")

C27_Witness ==
  /\ Done(1, "ReadData")
  /\ ctx[1].length = MaxLen
  /\ obs[1].waits >= 4
  /\ obs[1].wend = "exhausted"
  /\ config[I2C_MODULE_1].timeout_ms = 6357

\* C28: a wait that finds the pending bits clear, on entry or at any test of
\* the loop up to the last one the budget allows, with neither the collision
\* nor the overrun flag set, returns success and leaves the status as it
\* was, whatever the configured timeout, 0 included.
C28_WaitSuccess ==
  [][\A c \in Ctxs :
       (Steps(c, "wait_exit") /\ obs[c].wend = "clear"
          /\ obs[c].wflags = {}) =>
         /\ ctx'[c].ret
         /\ state' = state]_vars

\* C29: when the loop body of the wait reads the collision flag or the
\* overrun flag as set, the wait returns failure in that very step, with
\* the counter it had (the rest of the budget is not consumed), and the
\* status becomes bus-collision if only the collision flag is set,
\* receive-overrun if only the overrun flag is set, one of the two if both
\* are, never timeout; the status is still that one when Start, Restart,
\* Stop or WriteByte then return, and they return failure.
C29_FlagEndsWait ==
  [][\A c \in Ctxs :
       LET f == ctx[c]
           u == GetState(f.module)
           r == con[GetModuleBase(f.module)]
           flags == r \cap {IWCOL, I2COV}
       IN /\ (Steps(c, "wait_body") /\ flags # {}) =>
               /\ ctx'[c].stk = Tail(f.stk)
               /\ ~ctx'[c].ret
               /\ state'[u] \in {"BUS_COLLISION", "OVERRUN"}
               /\ state'[u] = "BUS_COLLISION" => IWCOL \in flags
               /\ state'[u] = "OVERRUN" => I2COV \in flags
               /\ U32Val(f.tc) + 1
                    <= U32Val(TimeoutCounter(
                                config[GetConfig(f.module)].timeout_ms))
          /\ (Steps(c, "wait_body") /\ flags = {}) => Waiting(c)'
          /\ \A l \in {"start_after", "restart_after", "stop_after",
                       "wb_after"} :
               (Steps(c, l) /\ obs[c].wend \in {"collision", "overrun"}) =>
                 /\ ~ctx'[c].ret
                 /\ state'[u] = (IF obs[c].wend = "collision"
                                 THEN "BUS_COLLISION" ELSE "OVERRUN")]_vars

\* A WriteByte has failed on a collision seen by its wait, and a Stop on an
\* overrun.
C29_Witness ==
  \/ /\ Done(1, "WriteByte")
     /\ obs[1].wend = "collision"
     /\ state[I2C_MODULE_1] = "BUS_COLLISION"
     /\ ~ctx[1].ret
  \/ /\ Done(1, "Stop")
     /\ obs[1].wend = "overrun"
     /\ state[I2C_MODULE_1] = "OVERRUN"
     /\ ~ctx[1].ret

\* The log of a WriteData of the bytes d to address a in which the Start,
\* every byte and the Stop succeeded.
WriteLog(a, d) ==
  <<<<"S", 0>>, <<"s", 1>>, <<"W", (2 * a) % 256>>, <<"w", 1>>>>
    \o [k \in 1..(2 * Len(d)) |->
          IF k % 2 = 1 THEN <<"W", d[(k + 1) \div 2]>> ELSE <<"w", 1>>]
    \o <<<<"P", 0>>, <<"p", 1>>>>

\* C30: ReadRegister issues the write transaction Start, address-write,
\* register index, Stop and, when every part of it succeeded, one separate
\* read transaction that begins with a Start (never a repeated start),
\* sends address-read and performs one read, negatively acknowledged,
\* before its Stop; when the write transaction failed ReadRegister returns 0
\* and has issued no second Start, no address-read and no read.
\* WriteRegister issues what one WriteData of <<register index, value>>
\* issues and returns its result.
C30_RegisterAccess ==
  \A c \in Ctxs :
    LET f == ctx[c]
        log == obs[c].log
        wa == (2 * f.address) % 256
        ra == ((2 * f.address) % 256) + 1
    IN /\ Done(c, "ReadRegister") =>
            LET wlog == WriteLog(f.address, <<f.reg_addr>>)
                n == Len(wlog)
                wrote == Len(log) >= n /\ SubSeq(log, 1, n) = wlog
                rest == SubSeq(log, n + 1, Len(log))
                full == <<<<"S", 0>>, <<"W", ra>>, <<"R", 0>>, <<"P", 0>>>>
            IN /\ Sel(log, "Sr") = <<>>
               /\ wrote =>
                    /\ Requests(rest) \in
                         {<<<<"S", 0>>>>,
                          <<<<"S", 0>>, <<"W", ra>>, <<"P", 0>>>>,
                          full}
                    /\ (Has(rest, <<"s", 1>>) /\ Has(rest, <<"w", 1>>)) =>
                         Requests(rest) = full
               /\ ~wrote =>
                    /\ f.result = 0
                    /\ Len(Sel(log, "S")) <= 1
                    /\ Sel(log, "R") = <<>>
                    /\ ~Has(log, <<"W", ra>>)
                    /\ \A k \in 1..Len(Requests(log)) :
                         k <= Len(Requests(wlog))
                           /\ (Requests(log)[k] = Requests(wlog)[k]
                                 \/ Requests(log)[k] = <<"P", 0>>)
       /\ Done(c, "WriteRegister") =>
            LET wlog == WriteLog(f.address, <<f.reg_addr, f.reg_data>>)
                req == Requests(log)
                W == Sel(log, "W")
                exp == <<wa, f.reg_addr, f.reg_data>>
            IN /\ f.ret <=> log = wlog
               /\ Len(Sel(log, "S")) <= 1
               /\ Sel(log, "Sr") = <<>>
               /\ Sel(log, "R") = <<>>
               /\ Len(W) <= Len(exp)
               /\ \A k \in 1..Len(W) : W[k][2] = exp[k]
               /\ IF Has(log, <<"s", 1>>)
                  THEN /\ Len(Sel(log, "P")) = 1
                       /\ req[1] = <<"S", 0>>
                       /\ req[Len(req)] = <<"P", 0>>
                  ELSE W = <<>> /\ Sel(log, "P") = <<>>

\* A ReadRegister has run both transactions to the end and returns the byte
\* the peripheral sent.
C30_Witness ==
  /\ Done(1, "ReadRegister")
  /\ ctx[1].reg_addr = 5
  /\ ctx[1].result = 171
  /\ Requests(obs[1].log) =
       <<<<"S", 0>>, <<"W", 160>>, <<"W", 5>>, <<"P", 0>>,
         <<"S", 0>>, <<"W", 161>>, <<"R", 0>>, <<"P", 0>>>>
  /\ Has(obs[1].log, <<"r", 171, "OK">>)

\* C31 as stated: no step of a Restart or of a Stop that user code called
\* directly changes the busy flag of a unit.
C31_StandaloneKeepsBusy ==
  [][\A c \in Ctxs :
       (ctx[c].op \in {"Restart", "Stop"} /\ ctx'[c] # ctx[c]) =>
         busy' = busy]_vars

\* C31, amended: no step of a Restart called directly changes the busy flag,
\* whatever the wait returns and whether the flag is set or not; a Stop
\* called directly never sets it, and it clears it in the step that follows
\* a successful wait and in no other.
C31_StandaloneBusy ==
  [][\A c \in Ctxs :
       LET f == ctx[c]
           u == GetBusyFlag(f.module)
       IN /\ (f.op = "Restart" /\ ctx'[c] # f) => busy' = busy
          /\ (f.op = "Stop" /\ ctx'[c] # f) =>
               /\ \A v \in Units : busy'[v] => busy[v]
               /\ \A v \in Units : v # u => busy'[v] = busy[v]
               /\ IF Steps(c, "stop_after") /\ f.ret
                  THEN ~busy'[u]
                  ELSE busy'[u] = busy[u]]_vars

\* A Stop called directly on a unit marked busy has succeeded and the unit
\* is free.
C31_Witness ==
  /\ Done(1, "Stop")
  /\ ctx[1].ret
  /\ obs[1].pbusy0
  /\ ~busy[I2C_MODULE_1]

\* C32: a step of an operation that was called with the selector of one
\* unit leaves the busy flag, the status, the stored configuration, the
\* callback and every register of the other unit as they were.
C32_UnitIsolation ==
  [][\A c \in Ctxs :
       (ctx[c].stk # <<>> /\ ctx'[c] # ctx[c] /\ ctx[c].module \in Units) =>
         \A v \in Units \ {ctx[c].module} :
           /\ busy'[v] = busy[v]
           /\ state'[v] = state[v]
           /\ config'[v] = config[v]
           /\ callback'[v] = callback[v]
           /\ con'[v] = con[v]
           /\ stat'[v] = stat[v]
           /\ trn'[v] = trn[v]
           /\ rcv'[v] = rcv[v]
           /\ brg'[v] = brg[v]
           /\ add'[v] = add[v]
           /\ msk'[v] = msk[v]
           /\ intr'[v] = intr[v]
           /\ pins'[v] = pins[v]]_vars

\* A WriteData on unit 2 has ended with a negative acknowledge while unit 1
\* is marked busy by a Start, with its own configuration and callback.
C32_Witness ==
  /\ Done(1, "WriteData")
  /\ ctx[1].module = I2C_MODULE_2
  /\ Has(obs[1].log, <<"w", 0>>)
  /\ busy[I2C_MODULE_1]
  /\ state[I2C_MODULE_1] = "BUSY"
  /\ config[I2C_MODULE_1].module = I2C_MODULE_1
  /\ callback[I2C_MODULE_1] = "on_event"

\* C33: no step of the dispatcher writes the busy flag, the status or the
\* stored configuration of a unit, nor a register other than the unit's
\* interrupt flag, nor anything of the context it preempts; so a Start or a
\* Stop preempted at any step by a dispatch whose callback performs no bus
\* operation ends as its wait and the busy flag it met decide, as it does
\* without preemption.
C33_DispatchIsTransparent ==
  /\ [][\A c \in Ctxs :
          (ctx[c].op = "ISR" /\ ctx'[c] # ctx[c]) =>
            /\ UNCHANGED <<busy, state, config, callback>>
            /\ UNCHANGED <<con, stat, trn, rcv, brg, add, msk, pins, bus>>
            /\ \A u \in Units :
                 /\ intr'[u].iec = intr[u].iec
                 /\ intr'[u].ipc = intr[u].ipc
                 /\ u # ctx[c].module => intr'[u] = intr[u]
            /\ \A d \in Ctxs \ {c} : ctx'[d] = ctx[d] /\ obs'[d] = obs[d]]_vars
  /\ [](\A c \in Ctxs :
          /\ Done(c, "Stop") =>
               /\ ctx[c].ret = obs[c].wret
               /\ ctx[c].ret =>
                    ~busy[I2C_MODULE_1] /\ state[I2C_MODULE_1] = "IDLE"
               /\ ~ctx[c].ret =>
                    /\ busy[I2C_MODULE_1] = obs[c].pbusy0
                    /\ state[I2C_MODULE_1] \in WaitErrors
          /\ (Done(c, "Start") /\ ~obs[c].pbusy0) =>
               /\ ctx[c].ret = obs[c].wret
               /\ busy[I2C_MODULE_1] = ctx[c].ret
               /\ state[I2C_MODULE_1] =
                    (IF ctx[c].ret THEN "BUSY" ELSE state[I2C_MODULE_1])
               /\ ~ctx[c].ret => state[I2C_MODULE_1] \in WaitErrors)

\* A dispatch that called back has run to its end while the Stop of the
\* polled caller, on a unit marked busy, is inside its wait.
C33_Witness ==
  /\ ctx[1].op = "Stop"
  /\ Waiting(1)
  /\ busy[I2C_MODULE_1]
  /\ Done(2, "ISR")
  /\ obs[2].calls # <<>>

\* C34: the bits of the control register have one role each: enabling a
\* unit in Init does not set the bit WriteByte reads as acknowledge status,
\* the acknowledge-direction bit ReadByte writes is not one of the pending
\* bits the wait polls, and the bit WriteByte asserts to transmit is not the
\* one ReadByte asserts to receive.
C34_DisjointBitRoles ==
  [][\A u \in Units :
       /\ (~pins[u] /\ pins'[u]) => ACKSTAT \notin con'[u]
       /\ \A c \in Ctxs :
            GetModuleBase(ctx[c].module) = u =>
              /\ Steps(c, "rb_ackdt") =>
                   con'[u] \cap PendingMask = con[u] \cap PendingMask
              /\ Steps(c, "wb_go") => RCEN \notin (con'[u] \ con[u])]_vars

\* C35: CheckDevice returns what the write of the address byte returned,
\* whatever its Stop returns.  Within a ScanBus, a Stop that fails leaves
\* the unit marked busy, nothing but a successful Stop or a failed Start
\* releases it, a probe that finds it busy fails at Start and changes
\* nothing, and a failed probe records nothing; so a probe ends with the
\* unit busy only if its own Stop failed or it failed at Start without
\* issuing anything, and a probe that failed at Start records no address.
C35_ScanAfterFailedStop ==
  /\ [][\A c \in Ctxs :
          LET f == ctx[c]
              u == GetBusyFlag(f.module)
          IN /\ Steps(c, "cd_stop") =>
                  /\ ctx'[c].ret = f.success
                  /\ ctx'[c].stk = Tail(f.stk)
             /\ f.op = "ScanBus" =>
                  /\ (Steps(c, "stop_after") /\ ~f.ret) =>
                       busy[u] /\ busy'[u]
                  /\ (busy[u] /\ ~busy'[u]) =>
                       \/ Steps(c, "stop_after") /\ f.ret
                       \/ Steps(c, "start_after") /\ ~f.ret
                  /\ (Steps(c, "start_check") /\ busy[u]) =>
                       /\ ~ctx'[c].ret
                       /\ ctx'[c].stk = Tail(f.stk)
                       /\ UNCHANGED <<regs, glob>>
                  /\ (Steps(c, "sb_probe")
                        /\ (~f.ret \/ obs[c].log = <<<<"s", 0>>>>)) =>
                       /\ ctx'[c].found = f.found
                       /\ ctx'[c].devices = f.devices]_vars
  /\ [](\A c \in Ctxs :
          (ctx[c].op = "ScanBus" /\ busy[GetBusyFlag(ctx[c].module)]
             /\ (At(c, "sb_probe") \/ At(c, "done"))) =>
            /\ \/ Has(obs[c].log, <<"p", 0>>)
               \/ obs[c].log = <<<<"s", 0>>>>
            /\ (At(c, "sb_probe") /\ obs[c].log = <<<<"s", 0>>>>) =>
                 ~ctx[c].ret)

\* A scan of a bus with two peripherals has ended with the unit busy: the
\* Stop of a probe failed, the last probe failed at Start, and a peripheral
\* that is present was not recorded.
C35_Witness ==
  /\ Done(1, "ScanBus")
  /\ busy[I2C_MODULE_1]
  /\ obs[1].log = <<<<"s", 0>>>>
  /\ bus.devs = {LM75_ADDRESS, EEPROM_ADDRESS}
  /\ ctx[1].found < 2

C37_BusyStatusImpliesFlag ==
  (\A c \in Ctxs : ctx[c].stk = <<>> \/ At(c, "done")) =>
    \A u \in Units : state[u] = "BUSY" => busy[u]

\* After a Stop whose condition the hardware has not completed, the caller
\* has taken the unit again with a Start that succeeded: status busy, flag
\* set.
C37_Witness ==
  /\ Done(1, "Start")
  /\ ctx[1].ret
  /\ state[I2C_MODULE_1] = "BUSY"
  /\ busy[I2C_MODULE_1]
  /\ PEN \in con[I2C_MODULE_1]

\* C38: a WriteData or a ReadData called with length 0 or with a null
\* buffer returns failure in its first step, which changes no register, no
\* busy flag, no status, no configuration and no callback; it has then
\* issued no condition and no byte and has not waited.
C38_RejectsEmptyTransfer ==
  /\ [][\A c \in Ctxs :
          LET f == ctx[c]
          IN ((Steps(c, "wd_entry") \/ Steps(c, "rd_entry"))
                /\ f.op \in {"WriteData", "ReadData"}
                /\ (f.length = 0 \/ f.isnull)) =>
               /\ ctx'[c].stk = Tail(f.stk)
               /\ ~ctx'[c].ret
               /\ UNCHANGED <<regs, glob>>]_vars
  /\ [](\A c \in Ctxs :
          (At(c, "done") /\ ctx[c].op \in {"WriteData", "ReadData"}
             /\ (ctx[c].length = 0 \/ ctx[c].isnull)) =>
            /\ ~ctx[c].ret
            /\ obs[c].log = <<>>
            /\ obs[c].waits = 0)

\* A WriteData with a null buffer and a ReadData of length 0 have been
\* refused, on a unit that is marked busy.
C38_Witness ==
  /\ At(1, "done")
  /\ \/ ctx[1].op = "WriteData" /\ ctx[1].isnull /\ ctx[1].length = 1
     \/ ctx[1].op = "ReadData" /\ ctx[1].length = 0 /\ ~ctx[1].isnull
  /\ ~ctx[1].ret
  /\ obs[1].log = <<>>
  /\ busy[I2C_MODULE_1]
  /\ state[I2C_MODULE_1] = "TIMEOUT"

-----------------------------------------------------------------------------
\* One polled caller that opens transactions on unit 1 and waits for the
\* bus to be free.
NextIdle ==
  \/ \E cfg \in MasterConfigs : I2C_Init(1, cfg)
  \/ Invoke(1, {"WaitIdle", "Start"}, {I2C_MODULE_1})
  \/ WaitIdleEntry(1)
  \/ WaitIdleTest(1)
  \/ StartSteps(1)
  \/ WaitSteps(1)
  \/ Finish(1)
  \/ \E nack \in BOOLEAN : HwComplete(I2C_MODULE_1, nack)
  \/ HwTransmitStatus(I2C_MODULE_1)

SpecIdle == Init /\ [][NextIdle]_vars

\* C39: WaitIdle returns true exactly when it read bit 14 of the status
\* register clear after fewer than timeout_ms x 1000 polling iterations, so
\* it returns false when the bit was set at every one of them; no step of
\* WaitIdle changes a busy flag or a status.
C39_WaitIdleResult ==
  [][\A c \in Ctxs :
       LET f == ctx[c]
           u == GetModuleBase(f.module)
           used == U32Val(TimeoutCounter(f.timeout_ms)) - U32Val(f.tc)
       IN /\ (Steps(c, "wi_entry") \/ Steps(c, "wi_test")) =>
               UNCHANGED <<state, busy>>
          /\ (Steps(c, "wi_test") /\ ctx'[c].stk = Tail(f.stk)) =>
               (ctx'[c].ret <=>
                  (TRSTAT \notin stat[u] /\ used < f.timeout_ms * IterPerMs))]_vars

====
